---------------------------- MODULE Spec2Model ----------------------------
(***************************************************************************)
(* A model of kixdns: the prefetch manager's job scheduling and related    *)
(* jobs (src/src/prefetch.rs), the UDP worker's datagram handling and the  *)
(* TCP connection loop (src/src/main.rs), the quick query and response     *)
(* parsers (src/src/proto_utils.rs) and the shared response cache with its *)
(* single-flight registry.  The subsystems share one variable list; each   *)
(* has a specification of its own in which the others stay idle.           *)
(***************************************************************************)
EXTENDS Integers, Sequences, FiniteSets, TLC

(***************************************************************************)
(* Bounds of the model.                                                    *)
(***************************************************************************)
\* Largest value of the monotonic clock (Instant::now()).
MaxTime == 3
\* Number of datagrams a UDP worker receives in one behaviour.
MaxDatagrams == 3
\* Number of frames a TCP connection handles in one behaviour.
MaxFrames == 3

VARIABLES
    clock,          \* the monotonic clock read by Instant::now()
    cache,          \* the response cache: fingerprint -> entry
    \* ---- single-flight registry and the requests of the slow path ----
    inflight,       \* the InFlight objects registered, one record each
    resolved,       \* what each InFlight resolved to, by token
    reqs,           \* each requester's position in handle_packet, and its locals
    last_hit,       \* history: the last Hit a lookup returned
    \* ---- UDP worker (src/src/main.rs) ----
    flow,           \* the engine's flow permits
    received,       \* number of datagrams the worker has received
    handled,        \* history: how the last datagram was handled
    async_sends,    \* the tasks spawned by spawn_async_send and not yet run
    slow_tasks,     \* number of spawned handle_packet tasks still running
    slow_done,      \* history: how the last spawned handle_packet task ended
    \* ---- TCP connection (src/src/main.rs) ----
    conn,           \* position of handle_tcp_conn and its locals
    written,        \* what handle_tcp_conn has written to the stream, in order
    handled_frames, \* history: the responses handle_packet returned, in order
    \* ---- quick parsers (src/src/proto_utils.rs) ----
    wire,           \* the packet handed to parse_quick and parse_response_quick
    scratch,        \* buf.len() of the scratch buffer handed to parse_quick
    parsed,         \* which of the two parsers have been applied to the packet
    quick_query,    \* what parse_quick returned
    quick_response, \* what parse_response_quick returned
    \* ---- prefetch manager (src/src/prefetch.rs) ----
    config,         \* PrefetchManager.config
    last_prefetch,  \* PrefetchManager.last_prefetch: job hash -> Instant
    concurrency,    \* PrefetchManager.concurrency: permits left in the semaphore
    permits,        \* OwnedSemaphorePermits handed out and not yet dropped
    calls,          \* position of each thread inside try_prepare_job, and its locals
    ret,            \* history: the last try_prepare_job call made as a whole
    grants,         \* history: per job, the time of the call last granted a permit
    cdn_relations,  \* PrefetchManager.cdn_relations: relation key -> domains
    related,        \* history: the last related_jobs call and what it returned
    registration,   \* history: the last register_cdn_relations_from_response call
    cdn_relation_lookups, \* PrefetchManager.cdn_relation_lookups
    cdn_relation_hits,    \* PrefetchManager.cdn_relation_hits
    lookup_ops,     \* history: number of related_jobs and of record_access calls made
    lookup_found,   \* history: how many of them were made with a relation stored for their key
    hot_domains,    \* PrefetchManager.hot_domains: fingerprint -> PrefetchEntry
    shard_of,       \* the shard of hot_domains (a DashMap) each fingerprint falls in
    shard_locks,    \* per shard of hot_domains, the thread holding its write lock (0: free)
    access,         \* position of each thread inside record_access, and its locals
    expected,       \* history: per fingerprint, the increments owed by the calls begun
    \* ---- configuration (src/src/config.rs) and rule evaluation ----
    rule,           \* the rule under evaluation: its operator and its predicates' values
    matching,       \* position of the evaluation of the rule's matchers, and its result
    settings,       \* GlobalSettings, as deserialized
    response_eval,  \* position of the response-phase evaluation of one request
    loaded,         \* history: the last load_config call and what it returned
    deserialized,   \* history: the last JSON value deserialized and the outcome
    \* ---- operations followed step by step ----
    traversal,      \* register_cdn_relations_from_message: its breadth-first walk
    looking,        \* position of each thread inside lookup_cdn_relations
    snapshot,       \* position of the cdn_relation_stats call, and what it has loaded
    pass            \* run_udp_worker: its position and the batch_count of its pass

pf_vars == <<config, last_prefetch, concurrency, permits, calls, ret, grants>>
udp_vars == <<flow, received, handled, async_sends, slow_tasks, slow_done>>
tcp_vars == <<conn, written, handled_frames>>
ca_vars == <<inflight, resolved, reqs, last_hit>>
pq_vars == <<wire, scratch, parsed, quick_query, quick_response>>
rel_vars == <<cdn_relations, related>>
stat_vars == <<cdn_relation_lookups, cdn_relation_hits, lookup_ops, lookup_found>>
hot_vars == <<hot_domains, shard_of, shard_locks, access, expected>>
mgr_vars == <<registration, stat_vars, hot_vars>>
cfg_vars == <<rule, matching, settings, response_eval, loaded, deserialized>>
step_vars == <<traversal, looking, snapshot, pass>>

vars == <<clock, cache, ca_vars, udp_vars, tcp_vars, pq_vars, pf_vars, rel_vars, mgr_vars,
          cfg_vars, step_vars>>

\* What the steps of one subsystem leave alone.
not_clock == <<cache, ca_vars, udp_vars, tcp_vars, pq_vars, pf_vars, rel_vars, mgr_vars,
    cfg_vars, step_vars>>
not_udp == <<clock, cache, ca_vars, tcp_vars, pq_vars, pf_vars, rel_vars, mgr_vars,
    cfg_vars, step_vars>>
not_tcp == <<clock, cache, ca_vars, udp_vars, pq_vars, pf_vars, rel_vars, mgr_vars,
    cfg_vars, step_vars>>
not_ca == <<clock, udp_vars, tcp_vars, pq_vars, pf_vars, rel_vars, mgr_vars,
    cfg_vars, step_vars>>
not_pf == <<clock, cache, ca_vars, udp_vars, tcp_vars, pq_vars, rel_vars, mgr_vars,
    cfg_vars, step_vars>>
not_pq == <<clock, cache, ca_vars, udp_vars, tcp_vars, pf_vars, rel_vars, mgr_vars,
    cfg_vars, step_vars>>
\* the rest but the manager as a whole: pf_vars, rel_vars and mgr_vars
not_mgr == <<clock, cache, ca_vars, udp_vars, tcp_vars, pq_vars, cfg_vars, step_vars>>
not_cfg == <<clock, cache, ca_vars, udp_vars, tcp_vars, pq_vars, pf_vars, rel_vars, mgr_vars, step_vars>>
not_step == <<clock, cache, ca_vars, udp_vars, tcp_vars, pq_vars, pf_vars, rel_vars, mgr_vars,
    cfg_vars>>
\* the rest but the manager and the operations followed step by step
not_mgr_step == <<clock, cache, ca_vars, udp_vars, tcp_vars, pq_vars, cfg_vars>>
not_rel == <<clock, cache, ca_vars, udp_vars, tcp_vars, pq_vars, pf_vars, mgr_vars,
    cfg_vars, step_vars>>

(***************************************************************************)
(* Bytes.  A packet is a sequence of bytes; B(packet, i) is packet[i] of   *)
(* the source, which counts from 0.                                        *)
(***************************************************************************)
B(packet, i) == packet[i + 1]
\* u16::from_be_bytes([hi, lo]) and u16::to_be_bytes
from_be_bytes(hi, lo) == hi * 256 + lo
to_le_bytes(v) == <<v % 256, v \div 256>>
to_be_bytes(v) == <<v \div 256, v % 256>>

\* The clock advances.
Tick ==
    /\ clock < MaxTime
    /\ clock' = clock + 1
    /\ UNCHANGED not_clock

(***************************************************************************)
(* Quick response parse: parse_response_quick of src/src/proto_utils.rs.   *)
(***************************************************************************)
\* A u32 is the pair of its 16-bit halves, high half first: the model checker's
\* integers are narrower than 32 bits.
u32_from_be_bytes(b0, b1, b2, b3) == <<from_be_bytes(b0, b1), from_be_bytes(b2, b3)>>
u32_lt(a, b) == a[1] < b[1] \/ (a[1] = b[1] /\ a[2] < b[2])
U32Max == <<65535, 65535>>
U32Zero == <<0, 0>>
\* What the model writes where the source returns None.
NoU32 == <<-1, -1>>
NoResponse == [ok |-> FALSE, rcode |-> 0, min_ttl |-> U32Zero, truncated |-> FALSE]

\* let truncated = (flags_byte2 & 0x02) != 0;
response_truncated(packet) == (B(packet, 2) \div 2) % 2 = 1

\* let rcode_u8 = packet[3] & 0x0F;
response_rcode_byte2(packet) == B(packet, 2) % 16
response_rcode(packet) == B(packet, 3) % 16

\* The name skip of lines 281-302 and 315-336: the position after the name that
\* starts at pos (a compression pointer ends it), -1 where the source returns None.
RECURSIVE skip_response_name(_, _)
skip_response_name(packet, pos) ==
    IF pos >= Len(packet) THEN -1
    ELSE LET len == B(packet, pos)
         IN IF len = 0 THEN pos + 1
            ELSE IF len >= 192
                 THEN (IF pos + 2 > Len(packet) THEN -1 ELSE pos + 2)
            ELSE IF pos + 1 + len > Len(packet) THEN -1
            ELSE skip_response_name(packet, pos + 1 + len)

\* lines 279-308: skip qd_count questions
RECURSIVE skip_questions(_, _, _)
skip_questions(packet, pos, n) ==
    IF n = 0 THEN pos
    ELSE LET after == skip_response_name(packet, pos)
         IN IF after < 0 \/ after + 4 > Len(packet) THEN -1
            ELSE skip_questions(packet, after + 4, n - 1)

\* lines 313-360: the minimum TTL of an_count answers, NoU32 where the source returns None
RECURSIVE scan_answers(_, _, _, _)
scan_answers(packet, pos, n, min_ttl) ==
    IF n = 0 THEN min_ttl
    ELSE LET after == skip_response_name(packet, pos)
         IN IF after < 0 \/ after + 10 > Len(packet) THEN NoU32
            ELSE LET ttl == u32_from_be_bytes(B(packet, after + 4), B(packet, after + 5),
                                              B(packet, after + 6), B(packet, after + 7))
                     rd_len == from_be_bytes(B(packet, after + 8), B(packet, after + 9))
                 IN scan_answers(packet, after + 10 + rd_len, n - 1,
                                 IF u32_lt(ttl, min_ttl) THEN ttl ELSE min_ttl)

parse_response_quick(packet) ==
    IF Len(packet) < 12 THEN NoResponse
    ELSE LET truncated == response_truncated(packet)
             rcode == response_rcode(packet)
             qd_count == from_be_bytes(B(packet, 4), B(packet, 5))
             an_count == from_be_bytes(B(packet, 6), B(packet, 7))
         IN IF an_count = 0
            THEN [ok |-> TRUE, rcode |-> rcode, min_ttl |-> U32Zero, truncated |-> truncated]
            ELSE LET pos == skip_questions(packet, 12, qd_count)
                     min_ttl == IF pos < 0 THEN NoU32
                                ELSE scan_answers(packet, pos, an_count, U32Max)
                 IN IF min_ttl = NoU32 THEN NoResponse
                    ELSE [ok |-> TRUE, rcode |-> rcode,
                          min_ttl |-> IF min_ttl = U32Max THEN U32Zero ELSE min_ttl,
                          truncated |-> truncated]

(***************************************************************************)
(* Quick query parse: parse_quick and skip_name of src/src/proto_utils.rs. *)
(***************************************************************************)
\* let mut max_jumps = 5; (parse_quick) and MAX_COMPRESSION_JUMPS (skip_name)
QuickMaxJumps == 5
MAX_COMPRESSION_JUMPS == 5
\* rr_type == 41: the OPT record
OPT == 41

\* b.is_ascii_uppercase() and b.to_ascii_lowercase()
is_ascii_uppercase(b) == b >= 65 /\ b <= 90
to_ascii_lowercase(b) == IF is_ascii_uppercase(b) THEN b + 32 ELSE b

\* lines 94-117: the label as it is copied to the buffer.  Both branches of
\* needs_lowercase are modelled: the copy is verbatim when no byte of the label
\* is an ASCII uppercase letter.
copy_label(label_bytes) ==
    LET needs_lowercase == \E i \in 1..Len(label_bytes) : is_ascii_uppercase(label_bytes[i])
    IN IF needs_lowercase
       THEN [i \in 1..Len(label_bytes) |-> to_ascii_lowercase(label_bytes[i])]
       ELSE label_bytes

\* (((len as u16) & 0x3F) << 8) | (packet[current_pos + 1] as u16)
pointer_offset(len, next) == (len % 64) * 256 + next

\* String::from_utf8_lossy: the characters (code points) of a byte string.  ASCII
\* bytes and two-byte sequences decode to their character; a byte that starts
\* no valid sequence becomes U+FFFD.  Lead bytes of three- and four-byte
\* sequences (224 and above) do not occur in the names explored.
REPLACEMENT_CHARACTER == 65533
RECURSIVE from_utf8_lossy(_)
from_utf8_lossy(bytes) ==
    IF Len(bytes) = 0 THEN << >>
    ELSE LET b == bytes[1]
         IN IF b < 128 THEN <<b>> \o from_utf8_lossy(Tail(bytes))
            ELSE IF b >= 194 /\ b <= 223 /\ Len(bytes) >= 2
                    /\ bytes[2] >= 128 /\ bytes[2] <= 191
                 THEN <<(b - 192) * 64 + (bytes[2] - 128)>>
                      \o from_utf8_lossy(Tail(Tail(bytes)))
            ELSE <<REPLACEMENT_CHARACTER>> \o from_utf8_lossy(Tail(bytes))

\* What the model writes where parse_quick returns None.
NoQuery == [ok |-> FALSE, tx_id |-> 0, qname |-> << >>, qtype |-> 0, qclass |-> 0,
            edns_present |-> FALSE, jumps |-> 0, steps |-> 0]
NoName == [ok |-> FALSE, pos |-> 0, buf |-> << >>, jumps |-> 0, steps |-> 0]

\* lines 42-120: the loop over the qname.  buf is buf[..buf_pos]; jumps counts
\* the pointers followed and steps the iterations of the loop.
RECURSIVE walk_qname(_, _, _, _, _, _, _, _, _)
walk_qname(packet, buf_len, current_pos, pos, jumped, max_jumps, buf, jumps, steps) ==
    IF current_pos >= Len(packet) THEN [NoName EXCEPT !.jumps = jumps, !.steps = steps + 1]
    ELSE LET len == B(packet, current_pos)
         IN IF len = 0
            THEN [ok |-> TRUE, pos |-> IF jumped THEN pos ELSE current_pos + 1,
                  buf |-> buf, jumps |-> jumps, steps |-> steps + 1]
            ELSE IF len >= 192
            THEN IF Len(packet) < current_pos + 2
                 THEN [NoName EXCEPT !.jumps = jumps, !.steps = steps + 1]
                 ELSE IF max_jumps - 1 = 0
                 THEN [NoName EXCEPT !.jumps = jumps + 1, !.steps = steps + 1]
                 ELSE walk_qname(packet, buf_len,
                                 pointer_offset(len, B(packet, current_pos + 1)),
                                 IF jumped THEN pos ELSE current_pos + 2,
                                 TRUE, max_jumps - 1, buf, jumps + 1, steps + 1)
            ELSE IF Len(packet) < current_pos + 1 + len
                 THEN [NoName EXCEPT !.jumps = jumps, !.steps = steps + 1]
                 ELSE LET dotted == IF Len(buf) > 0 THEN buf \o <<46>> ELSE buf
                          label_bytes == SubSeq(packet, current_pos + 2, current_pos + 1 + len)
                      IN IF (Len(buf) > 0 /\ Len(buf) >= buf_len)
                            \/ Len(dotted) + len > buf_len
                         THEN [NoName EXCEPT !.jumps = jumps, !.steps = steps + 1]
                         ELSE walk_qname(packet, buf_len, current_pos + 1 + len, pos,
                                         jumped, max_jumps, dotted \o copy_label(label_bytes),
                                         jumps, steps + 1)

\* lines 42-120: the offsets of the label bytes the qname loop reads when the
\* buffer does not run out.
RECURSIVE label_offsets(_, _, _)
label_offsets(packet, current_pos, max_jumps) ==
    IF current_pos >= Len(packet) THEN {}
    ELSE LET len == B(packet, current_pos)
         IN IF len = 0 THEN {}
            ELSE IF len >= 192
            THEN IF Len(packet) < current_pos + 2 \/ max_jumps - 1 = 0 THEN {}
                 ELSE label_offsets(packet, pointer_offset(len, B(packet, current_pos + 1)),
                                    max_jumps - 1)
            ELSE IF Len(packet) < current_pos + 1 + len THEN {}
                 ELSE ((current_pos + 1)..(current_pos + len))
                          \cup label_offsets(packet, current_pos + 1 + len, max_jumps)

\* lines 194-238: the position after the name at pos, -1 where the source
\* returns None.
RECURSIVE skip_name(_, _, _)
skip_name(packet, pos, max_jumps) ==
    IF pos >= Len(packet) THEN -1
    ELSE LET len == B(packet, pos)
         IN IF len = 0 THEN pos + 1
            ELSE IF len >= 192
            THEN IF pos + 2 > Len(packet) THEN -1
                 ELSE IF max_jumps - 1 = 0 THEN -1
                 ELSE LET offset == pointer_offset(len, B(packet, pos + 1))
                      IN IF offset >= Len(packet) THEN -1
                         ELSE skip_name(packet, offset, max_jumps - 1)
            ELSE IF pos + 1 + len > Len(packet) THEN -1
                 ELSE skip_name(packet, pos + 1 + len, max_jumps)

\* lines 139-171: the walk over the additional section; n records are left.
RECURSIVE scan_additional(_, _, _)
scan_additional(packet, ar_pos, n) ==
    IF n = 0 \/ ar_pos >= Len(packet) THEN FALSE
    ELSE LET name_byte == B(packet, ar_pos)
             skipped == skip_name(packet, ar_pos, MAX_COMPRESSION_JUMPS)
             next_pos == IF name_byte = 0 THEN ar_pos + 1
                         ELSE IF skipped < 0 THEN Len(packet) ELSE skipped
         IN IF next_pos + 10 > Len(packet) THEN FALSE
            ELSE IF from_be_bytes(B(packet, next_pos), B(packet, next_pos + 1)) = OPT
            THEN TRUE
            ELSE LET rd_len == from_be_bytes(B(packet, next_pos + 8), B(packet, next_pos + 9))
                 IN IF Len(packet) < 10 + rd_len THEN FALSE
                    ELSE IF next_pos > Len(packet) - 10 - rd_len THEN FALSE
                    ELSE scan_additional(packet, next_pos + 10 + rd_len, n - 1)

\* if qd_count == 0 { return None; }
no_question_accepted(qd_count) == FALSE
no_question(qd_count) == qd_count = 0

\* lines 15-188
parse_quick(packet, buf_len) ==
    IF Len(packet) < 12 THEN NoQuery
    ELSE LET tx_id == from_be_bytes(B(packet, 0), B(packet, 1))
             qd_count == from_be_bytes(B(packet, 4), B(packet, 5))
             an_count == from_be_bytes(B(packet, 6), B(packet, 7))
             ns_count == from_be_bytes(B(packet, 8), B(packet, 9))
             ar_count == from_be_bytes(B(packet, 10), B(packet, 11))
         IN IF no_question(qd_count) THEN NoQuery
            ELSE LET name == walk_qname(packet, buf_len, 12, 12, FALSE, QuickMaxJumps,
                                        << >>, 0, 0)
                     pos == name.pos
                 IN IF ~name.ok \/ Len(packet) < pos + 4
                    THEN [NoQuery EXCEPT !.jumps = name.jumps, !.steps = name.steps]
                    ELSE [ok |-> TRUE,
                          tx_id |-> tx_id,
                          qname |-> from_utf8_lossy(name.buf),
                          qtype |-> from_be_bytes(B(packet, pos), B(packet, pos + 1)),
                          qclass |-> from_be_bytes(B(packet, pos + 2), B(packet, pos + 3)),
                          edns_present |->
                              /\ ar_count > 0 /\ an_count = 0 /\ ns_count = 0
                              /\ scan_additional(packet, pos + 4, ar_count),
                          jumps |-> name.jumps,
                          steps |-> name.steps]

(***************************************************************************)
(* The packets explored.                                                   *)
(***************************************************************************)
\* The question section of a query for a one-letter name, type A, class IN.
Question(c) == <<1, c, 0, 0, 1, 0, 1>>
\* A standard query: the TXID, RD set, one question.
MkQuery(tx, question) == tx \o <<1, 0, 0, 1, 0, 0, 0, 0, 0, 0>> \o question
\* An answer record: root owner, type A, class IN, the TTL, no rdata.
Answer(ttl) == <<0, 0, 1, 0, 1, 0, 0, 0, ttl, 0, 0>>
\* A response: flag bytes b2 and b3, no question, the answers given.
MkResponse(tx, b2, b3, ttls) ==
    tx \o <<b2, b3, 0, 0, 0, Len(ttls), 0, 0, 0, 0>>
       \o (IF Len(ttls) = 0 THEN << >> ELSE Answer(ttls[1]))

\* Responses an upstream may send: with and without TC (b2 = 130, 128), rcode
\* NOERROR, SERVFAIL, NXDOMAIN and REFUSED (b3 = 128, 130, 131, 133), with no
\* answer or one answer of TTL 2; and one cut below the header.
UpstreamResponses ==
    { MkResponse(<<171, 205>>, b2, b3, ttls) :
        b2 \in {128, 130}, b3 \in {128, 130, 131, 133}, ttls \in {<< >>, <<2>>} }
    \cup { <<171, 205, 128>> }

(***************************************************************************)
(* The reference the quick parse is compared with: the question and the    *)
(* records of a message read as RFC 1035, section 4.1, lays them out.      *)
(***************************************************************************)
\* The labels of the name written out at pos (no compression), and the
\* position after it.
NoLabels == [ok |-> FALSE, labels |-> << >>, next |-> 0]
RECURSIVE reference_labels(_, _, _)
reference_labels(packet, pos, labels) ==
    IF pos >= Len(packet) THEN NoLabels
    ELSE LET len == B(packet, pos)
         IN IF len = 0 THEN [ok |-> TRUE, labels |-> labels, next |-> pos + 1]
            ELSE IF len > 63 \/ pos + 1 + len > Len(packet) THEN NoLabels
            ELSE reference_labels(packet, pos + 1 + len,
                                  Append(labels, SubSeq(packet, pos + 2, pos + 1 + len)))

\* The position after the owner name at pos, -1 if it is malformed: labels up
\* to a zero byte, or up to a pointer, which ends the name.
RECURSIVE reference_skip_owner(_, _)
reference_skip_owner(packet, pos) ==
    IF pos >= Len(packet) THEN -1
    ELSE LET len == B(packet, pos)
         IN IF len = 0 THEN pos + 1
            ELSE IF len >= 192 THEN (IF pos + 2 > Len(packet) THEN -1 ELSE pos + 2)
            ELSE IF len > 63 \/ pos + 1 + len > Len(packet) THEN -1
            ELSE reference_skip_owner(packet, pos + 1 + len)

\* The records that lie within the packet, of the n records at pos: each as
\* its type and TTL, in order.
RECURSIVE reference_records(_, _, _)
reference_records(packet, pos, n) ==
    IF n = 0 THEN << >>
    ELSE LET fixed == reference_skip_owner(packet, pos)
         IN IF fixed < 0 \/ fixed + 10 > Len(packet) THEN << >>
            ELSE LET rd_len == from_be_bytes(B(packet, fixed + 8), B(packet, fixed + 9))
                     record == [type |-> from_be_bytes(B(packet, fixed), B(packet, fixed + 1)),
                                ttl |-> SubSeq(packet, fixed + 5, fixed + 8),
                                end |-> fixed + 10 + rd_len]
                 IN <<record>> \o reference_records(packet, fixed + 10 + rd_len, n - 1)

\* The compression pointers a name needs: the walk from pos that follows every
\* pointer, with no limit.  bounds tells that the walk stays inside the packet,
\* loop that it comes to a pointer a second time, jumps the pointers followed,
\* and after the position following the name in the question.
NoJumps == [bounds |-> FALSE, loop |-> FALSE, jumps |-> 0, after |-> 0]
RECURSIVE reference_jumps(_, _, _, _, _)
reference_jumps(packet, pos, visited, jumps, after) ==
    IF pos >= Len(packet) THEN NoJumps
    ELSE LET len == B(packet, pos)
         IN IF len = 0
            THEN [bounds |-> TRUE, loop |-> FALSE, jumps |-> jumps,
                  after |-> IF jumps = 0 THEN pos + 1 ELSE after]
            ELSE IF len >= 192
            THEN IF pos + 2 > Len(packet) THEN NoJumps
                 ELSE IF pos \in visited
                 THEN [bounds |-> TRUE, loop |-> TRUE, jumps |-> jumps, after |-> after]
                 ELSE reference_jumps(packet, (len - 192) * 256 + B(packet, pos + 1),
                                      visited \cup {pos}, jumps + 1,
                                      IF jumps = 0 THEN pos + 2 ELSE after)
            ELSE IF pos + 1 + len > Len(packet) THEN NoJumps
            ELSE reference_jumps(packet, pos + 1 + len, visited, jumps, after)

\* The position after the n questions at pos, -1 if one leaves the packet.
RECURSIVE reference_questions_end(_, _, _)
reference_questions_end(packet, pos, n) ==
    IF n = 0 THEN pos
    ELSE LET type_pos == reference_skip_owner(packet, pos)
         IN IF type_pos < 0 \/ type_pos + 4 > Len(packet) THEN -1
            ELSE reference_questions_end(packet, type_pos + 4, n - 1)

\* The least of the TTL fields of the records given, each a 32-bit number in
\* big-endian bytes; the first record's TTL when there is one record.
RECURSIVE reference_min_ttl(_)
reference_min_ttl(records) ==
    LET ttl == u32_from_be_bytes(records[1].ttl[1], records[1].ttl[2],
                                 records[1].ttl[3], records[1].ttl[4])
    IN IF Len(records) = 1 THEN ttl
       ELSE LET rest == reference_min_ttl(Tail(records))
            IN IF u32_lt(rest, ttl) THEN rest ELSE ttl

\* The text of a label whose bytes are letters, digits or other printable
\* characters that need no escape: the bytes, letters in lower case.
reference_lower(b) == IF b >= 65 /\ b <= 90 THEN b + 32 ELSE b
plain_label(label) ==
    \A i \in 1..Len(label) : label[i] >= 33 /\ label[i] <= 126 /\ label[i] \notin {46, 92}
RECURSIVE reference_text(_)
reference_text(labels) ==
    IF Len(labels) = 0 THEN << >>
    ELSE [i \in 1..Len(labels[1]) |-> reference_lower(labels[1][i])]
            \o (IF Len(labels) = 1 THEN << >> ELSE <<46>> \o reference_text(Tail(labels)))
\* A name as a full parse compares it: the labels, letters in lower case.
reference_name(labels) ==
    [k \in 1..Len(labels) |-> [i \in 1..Len(labels[k]) |-> reference_lower(labels[k][i])]]

\* A well-formed query: a header with QR = 0 and one question, whose name is
\* written out in at most 255 bytes, and after the question exactly the records
\* the header counts.
well_formed_query(packet) ==
    /\ Len(packet) >= 12
    /\ B(packet, 2) < 128
    /\ from_be_bytes(B(packet, 4), B(packet, 5)) = 1
    /\ LET name == reference_labels(packet, 12, << >>)
           count == from_be_bytes(B(packet, 6), B(packet, 7))
                       + from_be_bytes(B(packet, 8), B(packet, 9))
                       + from_be_bytes(B(packet, 10), B(packet, 11))
       IN /\ name.ok
          /\ name.next - 12 <= 255
          /\ name.next + 4 <= Len(packet)
          /\ LET records == reference_records(packet, name.next + 4, count)
             IN /\ Len(records) = count
                /\ (IF count = 0 THEN name.next + 4 ELSE records[count].end) = Len(packet)

(***************************************************************************)
(* The quick parsers applied to one packet.                                *)
(***************************************************************************)
\* Longest chain of compression pointers in the names explored.
MaxJumps == 6

\* The 12-byte header: TXID, the two flag bytes, the four counts.
Header(tx, flags, qd, an, ns, ar) ==
    tx \o flags \o to_be_bytes(qd) \o to_be_bytes(an) \o to_be_bytes(ns) \o to_be_bytes(ar)

\* The wire form of a name given as a sequence of labels.
RECURSIVE wire_labels(_)
wire_labels(labels) ==
    IF Len(labels) = 0 THEN <<0>>
    ELSE <<Len(labels[1])>> \o labels[1] \o wire_labels(Tail(labels))

\* The names asked for: the root, a, A, Z, aB.C, ab.c, the one label "a.b", the
\* two labels a and b, a label that is not UTF-8, the label e-acute, and the
\* labels "@" and "[" (the bytes next to A and Z).
QueryNames ==
    { << >>, << <<97>> >>, << <<65>> >>, << <<90>> >>, << <<97, 66>>, <<67>> >>,
      << <<97, 98>>, <<99>> >>, << <<97, 46, 98>> >>, << <<97>>, <<98>> >>,
      << <<200>> >>, << <<195, 169>> >>, << <<64>> >>, << <<91>> >> }
Txids == { <<171, 205>>, <<0, 1>> }
\* A, AAAA and OPT
QueryTypes == {1, 28, 41}

\* Resource records: an OPT record (root owner, UDP size 4096), an A record with
\* the root as owner, and an A record whose owner is a pointer to offset 12.
OptRecord == <<0, 0, 41, 16, 0, 0, 0, 0, 0, 0, 0>>
ARecord == <<0, 0, 1, 0, 1, 0, 0, 0, 60, 0, 4, 10, 0, 0, 1>>
APointerRecord == <<192, 12, 0, 1, 0, 1, 0, 0, 0, 60, 0, 4, 10, 0, 0, 1>>
\* What follows the question: arcount and the bytes of the additional section.
AdditionalSections ==
    { [ar |-> 0, bytes |-> << >>],
      [ar |-> 1, bytes |-> OptRecord],
      [ar |-> 1, bytes |-> << >>],
      [ar |-> 1, bytes |-> SubSeq(OptRecord, 1, 5)],
      [ar |-> 1, bytes |-> ARecord],
      [ar |-> 2, bytes |-> ARecord \o OptRecord],
      [ar |-> 1, bytes |-> ARecord \o OptRecord],
      [ar |-> 2, bytes |-> APointerRecord \o OptRecord],
      [ar |-> 1, bytes |-> APointerRecord] }
\* ancount and nscount
SectionCounts == { <<0, 0>>, <<1, 0>>, <<0, 1>> }

\* Queries with one question whose name is written out in full.
PlainQueries ==
    { Header(tx, <<1, 0>>, 1, counts[1], counts[2], add.ar)
        \o wire_labels(labels) \o to_be_bytes(qtype) \o <<0, 1>> \o add.bytes :
        tx \in Txids, labels \in QueryNames, qtype \in QueryTypes,
        counts \in SectionCounts, add \in AdditionalSections }

\* A query whose name is reached through k compression pointers: the first
\* pointer takes the place of the name, the others and the name "a" follow the
\* question.  With k = 0 the name is written in place.
RECURSIVE pointer_chain(_, _)
pointer_chain(at, k) ==
    IF k = 0 THEN <<1, 97, 0>>
    ELSE to_be_bytes(49152 + at + 2) \o pointer_chain(at + 2, k - 1)
ChainQuery(tx, k) ==
    IF k = 0 THEN Header(tx, <<1, 0>>, 1, 0, 0, 0) \o <<1, 97, 0, 0, 1, 0, 1>>
    ELSE Header(tx, <<1, 0>>, 1, 0, 0, 0) \o <<192, 18, 0, 1, 0, 1>>
            \o pointer_chain(18, k - 1)
\* Names that loop: a pointer to itself, and two pointers to each other.
LoopQueries ==
    { Header(<<171, 205>>, <<1, 0>>, 1, 0, 0, 0) \o <<192, 12, 0, 1, 0, 1>>,
      Header(<<171, 205>>, <<1, 0>>, 1, 0, 0, 0) \o <<192, 18, 0, 1, 0, 1, 192, 12>>,
      Header(<<171, 205>>, <<1, 0>>, 1, 0, 0, 0) \o <<1, 97, 192, 12, 0, 1, 0, 1>> }
\* Names that point into the header: the TXID bytes are read as a label.
HeaderPointerQueries ==
    { Header(tx, <<0, 0>>, 1, 0, 0, 0) \o <<192, 0, 0, 1, 0, 1>> :
        tx \in { <<1, 97>>, <<1, 65>>, <<1, 98>> } }
\* Packets that are cut short or malformed: every prefix of a query, queries
\* with qdcount = 0, a label that runs past the end, a pointer cut in two, and
\* a question cut before its class.
ShortPackets ==
    { SubSeq(MkQuery(<<171, 205>>, Question(97)), 1, n) : n \in 0..18 }
NoQuestionPackets ==
    { Header(<<171, 205>>, <<1, 0>>, 0, an, 0, ar) \o rest :
        an \in {0, 1}, ar \in {0, 1},
        rest \in { << >>, <<0>>, Question(97), Question(97) \o OptRecord, <<192, 12>> } }
MalformedQueries ==
    { Header(<<171, 205>>, <<1, 0>>, 1, 0, 0, 0) \o rest :
        rest \in { <<5, 97, 98>>, <<192>>, <<1, 97, 0, 0, 1, 0>>, <<1, 97>>,
                   <<100, 97, 0, 0, 1, 0, 1>> } }

QuickPackets ==
    PlainQueries \cup { ChainQuery(tx, k) : tx \in Txids, k \in 0..MaxJumps }
        \cup LoopQueries \cup HeaderPointerQueries
        \cup ShortPackets \cup NoQuestionPackets \cup MalformedQueries

\* Most answers in a response explored.
MaxAnswers == 2
\* TTL fields: 0, 60, 300, 65536, 2^31 and 2^32 - 1
TtlFields ==
    { <<0, 0, 0, 0>>, <<0, 0, 0, 60>>, <<0, 0, 1, 44>>, <<0, 1, 0, 0>>,
      <<128, 0, 0, 0>>, <<255, 255, 255, 255>> }
\* An A record whose owner is a pointer to the question's name.
AnswerRecord(ttl) == <<192, 12, 0, 1, 0, 1>> \o ttl \o <<0, 4, 10, 0, 0, 1>>
RECURSIVE AnswerLists(_)
AnswerLists(n) ==
    IF n = 0 THEN { << >> }
    ELSE AnswerLists(n - 1)
            \cup { <<ttl>> \o rest : ttl \in TtlFields,
                                     rest \in { l \in AnswerLists(n - 1) : Len(l) = n - 1 } }
RECURSIVE answer_section(_)
answer_section(ttls) ==
    IF Len(ttls) = 0 THEN << >> ELSE AnswerRecord(ttls[1]) \o answer_section(Tail(ttls))
\* Flag bytes: byte 2 with and without TC (128, 130, and 133 = QR, AA, RD),
\* byte 3 with rcode 0, 3, 5 and with Z bits set above rcode 3 (115).
ResponseFlags == { <<b2, b3>> : b2 \in {128, 130, 133}, b3 \in {128, 131, 133, 115} }
\* Responses to the query for "a": every flag pair with up to MaxAnswers
\* answers; and responses whose ancount is one more than the answers present,
\* or whose last answer is cut inside its TTL.
ResponsePackets ==
    { Header(<<171, 205>>, flags, 1, Len(ttls), 0, 0) \o Question(97) \o answer_section(ttls) :
        flags \in ResponseFlags, ttls \in AnswerLists(MaxAnswers) }
    \cup { Header(<<171, 205>>, <<128, 128>>, 1, Len(ttls) + 1, 0, 0)
              \o Question(97) \o answer_section(ttls) : ttls \in AnswerLists(1) }
    \cup { Header(<<171, 205>>, <<128, 128>>, 1, 1, 0, 0)
              \o Question(97) \o SubSeq(AnswerRecord(<<0, 0, 0, 60>>), 1, 8) }

\* buf.len(): a buffer of the recommended size, and buffers too small for all
\* but the shortest names
ScratchLens == {0, 1, 3, 256}

(***************************************************************************)
(* The indices at which the quick parsers of src/src/proto_utils.rs index  *)
(* the packet and the scratch buffer.  Each operator follows the control   *)
(* flow of its function and collects every index the function reads or    *)
(* writes, whether or not it is inside the slice; a value read outside it  *)
(* (a panic in the program) stands as 0.                                   *)
(***************************************************************************)
byte_at(packet, i) == IF i >= 0 /\ i < Len(packet) THEN B(packet, i) ELSE 0
NoAccesses == [reads |-> {}, writes |-> {}]
Accessed(reads, writes, more) ==
    [reads |-> reads \cup more.reads, writes |-> writes \cup more.writes]

\* if packet_len < current_pos + label_len { return None; }  (line 77)
label_cut_unchecked(packet_len, current_pos, label_len) == FALSE
label_cut(packet_len, current_pos, label_len) == packet_len < current_pos + label_len

\* lines 42-120 of parse_quick: the qname loop, at current_pos with buf_pos
\* bytes written
RECURSIVE qname_accesses(_, _, _, _, _)
qname_accesses(packet, buf_len, current_pos, max_jumps, buf_pos) ==
    IF current_pos >= Len(packet) THEN NoAccesses
    ELSE LET len == byte_at(packet, current_pos)
         IN IF len = 0 THEN Accessed({current_pos}, {}, NoAccesses)
            ELSE IF len >= 192
            THEN IF Len(packet) < current_pos + 2
                 THEN Accessed({current_pos}, {}, NoAccesses)
                 ELSE IF max_jumps - 1 = 0
                 THEN Accessed({current_pos, current_pos + 1}, {}, NoAccesses)
                 ELSE Accessed({current_pos, current_pos + 1}, {},
                               qname_accesses(packet, buf_len,
                                              pointer_offset(len, byte_at(packet,
                                                                          current_pos + 1)),
                                              max_jumps - 1, buf_pos))
            ELSE IF label_cut(Len(packet), current_pos + 1, len)
                 THEN Accessed({current_pos}, {}, NoAccesses)
                 ELSE IF buf_pos > 0 /\ buf_pos >= buf_len
                 THEN Accessed({current_pos}, {}, NoAccesses)
                 ELSE LET dot == IF buf_pos > 0 THEN {buf_pos} ELSE {}
                          at == IF buf_pos > 0 THEN buf_pos + 1 ELSE buf_pos
                          label == (current_pos + 1)..(current_pos + len)
                      IN IF at + len > buf_len
                         THEN Accessed({current_pos} \cup label, dot, NoAccesses)
                         ELSE Accessed({current_pos} \cup label,
                                       dot \cup (at..(at + len - 1)),
                                       qname_accesses(packet, buf_len, current_pos + 1 + len,
                                                      max_jumps, at + len))

\* lines 194-238: skip_name
RECURSIVE skip_name_reads(_, _, _)
skip_name_reads(packet, pos, max_jumps) ==
    IF pos >= Len(packet) THEN {}
    ELSE LET len == byte_at(packet, pos)
         IN IF len = 0 THEN {pos}
            ELSE IF len >= 192
            THEN IF pos + 2 > Len(packet) \/ max_jumps - 1 = 0 THEN {pos}
                 ELSE LET offset == pointer_offset(len, byte_at(packet, pos + 1))
                      IN IF offset >= Len(packet) THEN {pos, pos + 1}
                         ELSE {pos, pos + 1} \cup skip_name_reads(packet, offset, max_jumps - 1)
            ELSE IF pos + 1 + len > Len(packet) THEN {pos}
                 ELSE {pos} \cup skip_name_reads(packet, pos + 1 + len, max_jumps)

\* lines 139-171 of parse_quick: the walk over the additional section
RECURSIVE additional_reads(_, _, _)
additional_reads(packet, ar_pos, n) ==
    IF n = 0 \/ ar_pos >= Len(packet) THEN {}
    ELSE LET name_byte == byte_at(packet, ar_pos)
             skipped == skip_name(packet, ar_pos, MAX_COMPRESSION_JUMPS)
             next_pos == IF name_byte = 0 THEN ar_pos + 1
                         ELSE IF skipped < 0 THEN Len(packet) ELSE skipped
             name == {ar_pos} \cup (IF name_byte = 0 THEN {}
                                    ELSE skip_name_reads(packet, ar_pos,
                                                         MAX_COMPRESSION_JUMPS))
         IN IF next_pos + 10 > Len(packet) THEN name
            ELSE IF from_be_bytes(byte_at(packet, next_pos), byte_at(packet, next_pos + 1))
                        = OPT
            THEN name \cup {next_pos, next_pos + 1}
            ELSE LET rd_len == from_be_bytes(byte_at(packet, next_pos + 8),
                                             byte_at(packet, next_pos + 9))
                     header == name \cup {next_pos, next_pos + 1, next_pos + 8, next_pos + 9}
                 IN IF Len(packet) < 10 + rd_len \/ next_pos > Len(packet) - 10 - rd_len
                    THEN header
                    ELSE header \cup additional_reads(packet, next_pos + 10 + rd_len, n - 1)

\* lines 15-188: parse_quick
parse_quick_accesses(packet, buf_len) ==
    IF Len(packet) < 12 THEN NoAccesses
    ELSE LET counts == {0, 1} \cup (4..11)
             qd_count == from_be_bytes(byte_at(packet, 4), byte_at(packet, 5))
             an_count == from_be_bytes(byte_at(packet, 6), byte_at(packet, 7))
             ns_count == from_be_bytes(byte_at(packet, 8), byte_at(packet, 9))
             ar_count == from_be_bytes(byte_at(packet, 10), byte_at(packet, 11))
         IN IF no_question(qd_count) THEN Accessed(counts, {}, NoAccesses)
            ELSE LET name == walk_qname(packet, buf_len, 12, 12, FALSE, QuickMaxJumps,
                                        << >>, 0, 0)
                     walked == Accessed(counts, {},
                                        qname_accesses(packet, buf_len, 12, QuickMaxJumps, 0))
                 IN IF ~name.ok \/ Len(packet) < name.pos + 4 THEN walked
                    ELSE Accessed(name.pos..(name.pos + 3)
                                      \cup (IF ar_count > 0 /\ an_count = 0 /\ ns_count = 0
                                            THEN additional_reads(packet, name.pos + 4,
                                                                  ar_count)
                                            ELSE {}),
                                  {}, walked)

\* lines 281-302 and 315-336 of parse_response_quick: the name skip
RECURSIVE response_name_reads(_, _)
response_name_reads(packet, pos) ==
    IF pos >= Len(packet) THEN {}
    ELSE LET len == byte_at(packet, pos)
         IN IF len = 0 \/ len >= 192 \/ pos + 1 + len > Len(packet) THEN {pos}
            ELSE {pos} \cup response_name_reads(packet, pos + 1 + len)
\* lines 279-308: the questions
RECURSIVE questions_reads(_, _, _)
questions_reads(packet, pos, n) ==
    IF n = 0 THEN {}
    ELSE LET after == skip_response_name(packet, pos)
         IN IF after < 0 \/ after + 4 > Len(packet) THEN response_name_reads(packet, pos)
            ELSE response_name_reads(packet, pos) \cup questions_reads(packet, after + 4, n - 1)
\* lines 313-360: the answers
RECURSIVE answers_reads(_, _, _)
answers_reads(packet, pos, n) ==
    IF n = 0 THEN {}
    ELSE LET after == skip_response_name(packet, pos)
         IN IF after < 0 \/ after + 10 > Len(packet) THEN response_name_reads(packet, pos)
            ELSE LET rd_len == from_be_bytes(byte_at(packet, after + 8),
                                             byte_at(packet, after + 9))
                 IN response_name_reads(packet, pos) \cup ((after + 4)..(after + 9))
                        \cup answers_reads(packet, after + 10 + rd_len, n - 1)
\* lines 251-367: parse_response_quick
parse_response_quick_reads(packet) ==
    IF Len(packet) < 12 THEN {}
    ELSE LET qd_count == from_be_bytes(byte_at(packet, 4), byte_at(packet, 5))
             an_count == from_be_bytes(byte_at(packet, 6), byte_at(packet, 7))
             pos == skip_questions(packet, 12, qd_count)
         IN (2..7) \cup (IF an_count = 0 THEN {}
                         ELSE questions_reads(packet, 12, qd_count)
                                  \cup (IF pos < 0 THEN {}
                                        ELSE answers_reads(packet, pos, an_count)))

\* The packets cut short: every prefix of a query whose additional section
\* holds a record owned by a pointer, a record owned by the root and an OPT
\* record; of a query whose name is reached through two pointers; of a
\* response with two answers; of a response whose answer has rdata; a name
\* that points beyond the packet; an answer whose rdata length runs past it.
Prefixes(packet) == { SubSeq(packet, 1, n) : n \in 0..Len(packet) }
CutPackets ==
    Prefixes(Header(<<171, 205>>, <<1, 0>>, 1, 0, 0, 3)
                 \o wire_labels(<< <<97, 66>>, <<67>> >>) \o <<0, 1, 0, 1>>
                 \o APointerRecord \o ARecord \o OptRecord)
        \cup Prefixes(ChainQuery(<<171, 205>>, 2))
        \cup Prefixes(Header(<<171, 205>>, <<128, 128>>, 1, 2, 0, 0) \o Question(97)
                          \o AnswerRecord(<<0, 0, 1, 44>>) \o <<1, 97, 0>>
                          \o SubSeq(ARecord, 2, Len(ARecord)))
        \cup { Header(<<171, 205>>, <<1, 0>>, 1, 0, 0, 1) \o <<192, 200, 0, 1, 0, 1>>,
               Header(<<171, 205>>, <<1, 0>>, 1, 0, 0, 1) \o Question(97) \o <<192, 200>>
                   \o SubSeq(OptRecord, 2, Len(OptRecord)),
               Header(<<171, 205>>, <<128, 128>>, 1, 2, 0, 0) \o Question(97)
                   \o <<0, 0, 1, 0, 1, 0, 0, 0, 60, 0, 200>>,
               Header(<<171, 205>>, <<128, 128>>, 2, 1, 0, 0) \o Question(97) \o <<192, 12>> }
        \cup LoopQueries \cup HeaderPointerQueries \cup MalformedQueries

NotParsed == {}
PqIdle ==
    /\ wire = << >>
    /\ scratch = 0
    /\ parsed = NotParsed
    /\ quick_query = NoQuery
    /\ quick_response = NoResponse

\* parse_quick(packet, buf)
ParseQuick ==
    /\ "query" \notin parsed
    /\ parsed' = parsed \cup {"query"}
    /\ quick_query' = parse_quick(wire, scratch)
    /\ UNCHANGED <<wire, scratch, quick_response, not_pq>>

\* parse_response_quick(packet)
ParseResponseQuick ==
    /\ "response" \notin parsed
    /\ parsed' = parsed \cup {"response"}
    /\ quick_response' = parse_response_quick(wire)
    /\ UNCHANGED <<wire, scratch, quick_query, not_pq>>

PqNext ==
    \/ ParseQuick
    \/ ParseResponseQuick

(***************************************************************************)
(* The response cache.  The cache and the engine are not part of the       *)
(* sources modelled here; they follow the specification's sections 4.3     *)
(* and 4.7.                                                                *)
(***************************************************************************)
\* The fingerprint of a query: its question section stands for the hash over
\* (pipeline, lower-cased qname, qtype).
fingerprint(packet) == SubSeq(packet, 13, Len(packet))
Fingerprints == {Question(97), Question(98)}

NoEntry == [bytes |-> << >>, expiry |-> -1, via |-> "-"]
CacheEmpty == cache = [f \in Fingerprints |-> NoEntry]

\* Responses with rcode other than NOERROR and NXDOMAIN, and truncated
\* responses, are not cached.
cacheable(bytes) ==
    LET quick == parse_response_quick(bytes)
    IN quick.ok /\ quick.rcode \in {0, 3} /\ ~quick.truncated

\* lookup(fingerprint) -> Hit(entry, remaining_ttl) | Miss | Expired
lookup_unexpiring(fp, now) ==
    IF fp \notin Fingerprints \/ cache[fp] = NoEntry
    THEN [tag |-> "Miss", entry |-> NoEntry, remaining_ttl |-> 0]
    ELSE [tag |-> "Hit", entry |-> cache[fp], remaining_ttl |-> cache[fp].expiry]
lookup(fp, now) ==
    IF fp \notin Fingerprints \/ cache[fp] = NoEntry
    THEN [tag |-> "Miss", entry |-> NoEntry, remaining_ttl |-> 0]
    ELSE IF cache[fp].expiry > now
    THEN [tag |-> "Hit", entry |-> cache[fp], remaining_ttl |-> cache[fp].expiry - now]
    ELSE [tag |-> "Expired", entry |-> NoEntry, remaining_ttl |-> 0]

(***************************************************************************)
(* UDP worker: run_udp_worker, set_transaction_id and spawn_async_send of  *)
(* src/src/main.rs.                                                        *)
(***************************************************************************)
\* packet[..2].copy_from_slice(&tx_id.to_be_bytes()), when the packet has 2 bytes
set_transaction_id_le(packet, tx_id) ==
    IF Len(packet) >= 2
    THEN <<tx_id % 256, tx_id \div 256>> \o SubSeq(packet, 3, Len(packet))
    ELSE packet
set_transaction_id(packet, tx_id) ==
    IF Len(packet) >= 2
    THEN to_be_bytes(tx_id) \o SubSeq(packet, 3, Len(packet))
    ELSE packet

\* tokio::spawn of socket.send_to(&data, peer): the task set with the new task
spawn_async_send_lost(id, data, peer) == async_sends
spawn_async_send(id, data, peer) ==
    async_sends \cup {[id |-> id, data |-> data, peer |-> peer]}

Peers == {"10.0.0.1:4000", "10.0.0.2:4000"}
\* The datagrams received: queries for "a" (cacheable) and "d" (denied by a
\* rule), and a datagram shorter than a DNS header.
UdpPackets ==
    { MkQuery(<<18, 52>>, Question(97)), MkQuery(<<18, 52>>, Question(100)), <<18, 52, 1>> }
DeniedQuestions == {Question(100)}
\* socket.try_send_to: sent, WouldBlock, or another error
SendResults == {"Ok", "WouldBlock", "Err"}

\* The REFUSED response synthesized for a denied query: the query's TXID, QR and
\* RD set, rcode 5, the question echoed.
refused_response(packet) ==
    SubSeq(packet, 1, 2) \o <<129, 5, 0, 1, 0, 0, 0, 0, 0, 0>> \o fingerprint(packet)

\* Engine::handle_packet_fast (specification, section 4.7): a parse error, a
\* Direct response, a CacheHit with the shared cached bytes and the requester's
\* TXID (parse_quick, line 21), or None when the slow path is needed.
handle_packet_fast(packet, peer) ==
    IF Len(packet) < 12
    THEN [tag |-> "Err", bytes |-> << >>, tx_id |-> 0]
    ELSE LET tx_id == from_be_bytes(B(packet, 0), B(packet, 1))
             found == lookup(fingerprint(packet), clock)
         IN IF fingerprint(packet) \in DeniedQuestions
            THEN [tag |-> "Direct", bytes |-> refused_response(packet), tx_id |-> 0]
            ELSE IF found.tag = "Hit"
            THEN [tag |-> "CacheHit", bytes |-> found.entry.bytes, tx_id |-> tx_id]
            ELSE [tag |-> "None", bytes |-> << >>, tx_id |-> 0]

NoDatagram ==
    [id |-> 0, tag |-> "-", packet |-> << >>, peer |-> "", bytes |-> << >>,
     sent |-> << >>, send |-> "-"]

\* The cached entries a worker may find: an entry is a cacheable response, live
\* (expiry 1) or expired (expiry 0) at time 0.
UdpCaches ==
    { [f \in Fingerprints |-> IF f = Question(97) THEN e ELSE NoEntry] :
        e \in {NoEntry} \cup
              { [bytes |-> r, expiry |-> x, via |-> "udp"] :
                    r \in {u \in UpstreamResponses : cacheable(u)}, x \in {0, 1} } }

\* How engine.handle_packet may end for a spawned task: a response, or an error.
HandlePacketResults ==
    { [ok |-> TRUE, bytes |-> refused_response(MkQuery(<<18, 52>>, Question(100)))],
      [ok |-> FALSE, bytes |-> << >>] }
NoSlowTask == [result |-> "-", sent |-> << >>]

\* if let Ok(resp) = engine.handle_packet(..).await { socket.send_to(&resp, peer) }:
\* what the spawned task hands to the socket
slow_task_send_always(result) == refused_response(MkQuery(<<18, 52>>, Question(100)))
slow_task_send(result) == IF result.ok THEN result.bytes ELSE << >>

UdpNew(limit) ==
    /\ flow = [max_permits |-> limit, in_flight |-> 0]
    /\ received = 0
    /\ handled = NoDatagram
    /\ async_sends = {}
    /\ slow_tasks = 0
    /\ slow_done = NoSlowTask

UdpInit == \E limit \in {1, 2} : UdpNew(limit)
\* default_flow_control_initial_permits
UdpIdle == UdpNew(500)

\* run_udp_worker, lines 244-318: one datagram is received and handled.
HandleDatagram(packet, peer) ==
    /\ received' = received + 1
    /\ LET id == received + 1
           resp == handle_packet_fast(packet, peer)
           seen == [NoDatagram EXCEPT !.id = id, !.tag = resp.tag, !.packet = packet,
                                      !.peer = peer, !.bytes = resp.bytes]
       IN \/ /\ resp.tag = "Direct"
             /\ \E result \in SendResults :
                  /\ handled' = [seen EXCEPT !.sent = resp.bytes, !.send = result]
                  /\ async_sends' = IF result = "WouldBlock"
                                    THEN spawn_async_send(id, resp.bytes, peer)
                                    ELSE async_sends
             /\ UNCHANGED slow_tasks
          \/ /\ resp.tag = "CacheHit"
             /\ \E result \in SendResults :
                  LET send_buf == set_transaction_id(resp.bytes, resp.tx_id)
                      response == set_transaction_id(resp.bytes, resp.tx_id)
                  IN /\ handled' = [seen EXCEPT !.sent = send_buf, !.send = result]
                     /\ async_sends' = IF result = "WouldBlock"
                                       THEN spawn_async_send(id, response, peer)
                                       ELSE async_sends
             /\ UNCHANGED slow_tasks
          \/ /\ resp.tag = "None"
             /\ handled' = seen
             /\ slow_tasks' = slow_tasks + 1
             /\ UNCHANGED async_sends
          \/ /\ resp.tag = "Err"
             /\ handled' = seen
             /\ UNCHANGED <<async_sends, slow_tasks>>
    /\ UNCHANGED <<flow, slow_done>>

\* the same, of a worker followed one datagram at a time
RecvDatagram(packet, peer) ==
    /\ received < MaxDatagrams
    /\ HandleDatagram(packet, peer)
    /\ UNCHANGED not_udp

\* A task spawned by spawn_async_send runs: socket.send_to(&data, peer).await
AsyncSendRun(task) ==
    /\ task \in async_sends
    /\ async_sends' = async_sends \ {task}
    /\ UNCHANGED <<flow, received, handled, slow_tasks, slow_done, not_udp>>

\* A spawned handle_packet task ends, lines 311-315.
SlowTaskEnd(result) ==
    /\ slow_tasks > 0
    /\ slow_tasks' = slow_tasks - 1
    /\ slow_done' = [result |-> IF result.ok THEN "Ok" ELSE "Err",
                     sent |-> slow_task_send(result)]
    /\ UNCHANGED <<flow, received, handled, async_sends, not_udp>>

UdpNext ==
    \/ \E packet \in UdpPackets, peer \in Peers : RecvDatagram(packet, peer)
    \/ \E task \in async_sends : AsyncSendRun(task)
    \/ \E result \in HandlePacketResults : SlowTaskEnd(result)

(***************************************************************************)
(* TCP connection: handle_tcp_conn of src/src/main.rs.  A response of      *)
(* handle_packet is modelled by its length and the frame it answers.       *)
(***************************************************************************)
\* const MAX_TCP_FRAME: usize = 64 * 1024;
MAX_TCP_FRAME == 65536
\* u16::MAX
U16Max == 65535

\* The two bytes read into len_buf: frame lengths 0, 29 and 256.
FrameLens == {<<0, 0>>, <<0, 29>>, <<1, 0>>}
\* stream.read_exact: read, end of stream, or another error
ReadResults == {"Ok", "UnexpectedEof", "Err"}
\* engine.handle_packet: a response of 45, 65535 or 65536 bytes, or an error
TcpHandleResults ==
    { [ok |-> TRUE, len |-> n] : n \in {45, U16Max, U16Max + 1} }
        \cup { [ok |-> FALSE, len |-> 0] }

NoResp == [frame |-> 0, len |-> 0]
\* A connection just accepted.
NewConn == [pc |-> "read_len", frame_len |-> 0, resp |-> NoResp, why |-> "-"]
\* handle_tcp_conn has returned; `why` is history: what made it return.
Closed(why) == [pc |-> "closed", frame_len |-> 0, resp |-> NoResp, why |-> why]

TcpNew ==
    /\ conn = NewConn
    /\ written = << >>
    /\ handled_frames = << >>

\* No connection is being served.
TcpIdle ==
    /\ conn = Closed("-")
    /\ written = << >>
    /\ handled_frames = << >>

\* resp.len() <= u16::MAX as usize
fits_prefix(resp) == resp.len <= U16Max

\* lines 342-351: the length prefix is read and tested.
TcpReadLen(result, len_buf) ==
    /\ conn.pc = "read_len"
    /\ Len(handled_frames) < MaxFrames
    /\ IF result = "UnexpectedEof" THEN conn' = Closed("eof")
       ELSE IF result = "Err" THEN conn' = Closed("read_err")
       ELSE LET frame_len == from_be_bytes(len_buf[1], len_buf[2])
            IN IF frame_len = 0 \/ frame_len > MAX_TCP_FRAME
               THEN conn' = Closed("frame_len")
               ELSE conn' = [conn EXCEPT !.pc = "read_frame", !.frame_len = frame_len]
    /\ UNCHANGED <<written, handled_frames, not_tcp>>

\* lines 353-356: the frame is read.
TcpReadFrame(ok) ==
    /\ conn.pc = "read_frame"
    /\ conn' = IF ok THEN [conn EXCEPT !.pc = "handle"] ELSE Closed("read_err")
    /\ UNCHANGED <<written, handled_frames, not_tcp>>

\* lines 358-363: engine.handle_packet returns, and the response length is tested.
TcpHandle(result) ==
    /\ conn.pc = "handle"
    /\ IF ~result.ok
       THEN /\ conn' = Closed("handle_packet")
            /\ UNCHANGED handled_frames
       ELSE LET resp == [frame |-> Len(handled_frames) + 1, len |-> result.len]
            IN /\ handled_frames' = Append(handled_frames, resp)
               /\ conn' = IF fits_prefix(resp)
                          THEN [conn EXCEPT !.pc = "write_len", !.resp = resp]
                          ELSE [conn EXCEPT !.pc = "read_len"]
    /\ UNCHANGED <<written, not_tcp>>

\* lines 364-367: the 2-byte big-endian length prefix is written.
TcpWriteLen(ok) ==
    /\ conn.pc = "write_len"
    /\ IF ok
       THEN /\ written' = Append(written, [kind |-> "len", bytes |-> to_be_bytes(conn.resp.len),
                                           resp |-> NoResp])
            /\ conn' = [conn EXCEPT !.pc = "write_resp"]
       ELSE /\ conn' = Closed("write_err")
            /\ UNCHANGED written
    /\ UNCHANGED <<handled_frames, not_tcp>>

\* lines 368-370: the response is written, and the loop goes back to read.
TcpWriteResp(ok) ==
    /\ conn.pc = "write_resp"
    /\ IF ok
       THEN /\ written' = Append(written, [kind |-> "resp", bytes |-> << >>,
                                           resp |-> conn.resp])
            /\ conn' = [conn EXCEPT !.pc = "read_len", !.resp = NoResp]
       ELSE /\ conn' = Closed("write_err")
            /\ UNCHANGED written
    /\ UNCHANGED <<handled_frames, not_tcp>>

TcpNext ==
    \/ \E result \in ReadResults, len_buf \in FrameLens : TcpReadLen(result, len_buf)
    \/ \E ok \in BOOLEAN : TcpReadFrame(ok)
    \/ \E result \in TcpHandleResults : TcpHandle(result)
    \/ \E ok \in BOOLEAN : TcpWriteLen(ok)
    \/ \E ok \in BOOLEAN : TcpWriteResp(ok)

(***************************************************************************)
(* The single-flight protocol of the slow path.  The cache and the engine  *)
(* are not part of the sources modelled here; this section follows         *)
(* sections 3, 4.3, 4.7 and 5 of the specification.                        *)
(***************************************************************************)
\* The concurrent requests; requester r sends its query with TXID r.
Requesters == {1, 2, 3}

\* The responses of the upstream explored: NOERROR with one answer of TTL 2,
\* the same with TC set, SERVFAIL, NXDOMAIN and REFUSED without answers.
NoErrorResponse == MkResponse(<<171, 205>>, 128, 128, <<2>>)
TruncatedResponse == MkResponse(<<171, 205>>, 130, 128, <<2>>)
ServFailResponse == MkResponse(<<171, 205>>, 128, 130, << >>)
NxDomainResponse == MkResponse(<<171, 205>>, 128, 131, << >>)
RefusedResponse == MkResponse(<<171, 205>>, 128, 133, << >>)

\* What an InFlight resolves to: a response or an error; Pending before that.
Pending == [kind |-> "Pending", bytes |-> << >>]
Response(bytes) == [kind |-> "Response", bytes |-> bytes]
UpstreamTimeout == [kind |-> "UpstreamTimeout", bytes |-> << >>]

\* How the upstream call of a leader may end, by the name asked for: the
\* upstream of "a" answers over UDP (with or without TC), fails or times out;
\* the upstream of "b" answers NXDOMAIN or REFUSED over UDP, or NOERROR over TCP.
UpstreamCalls(fp) ==
    IF fp = Question(97)
    THEN { [reply |-> Response(NoErrorResponse), via |-> "udp"],
           [reply |-> Response(TruncatedResponse), via |-> "udp"],
           [reply |-> Response(ServFailResponse), via |-> "udp"],
           [reply |-> UpstreamTimeout, via |-> "udp"] }
    ELSE { [reply |-> Response(NxDomainResponse), via |-> "udp"],
           [reply |-> Response(RefusedResponse), via |-> "udp"],
           [reply |-> Response(NoErrorResponse), via |-> "tcp"] }

\* Effective TTL = clamp(min_ttl_from_response, min_ttl_global, upper_bound),
\* in the model's clock units.
CacheSettings == [min_ttl_global |-> 1, upper_bound |-> 2]
effective_ttl(min_ttl) ==
    IF min_ttl[1] > 0 \/ min_ttl[2] > CacheSettings.upper_bound
    THEN CacheSettings.upper_bound
    ELSE IF min_ttl[2] < CacheSettings.min_ttl_global
    THEN CacheSettings.min_ttl_global
    ELSE min_ttl[2]

\* The InFlight objects registered for a fingerprint.
find_inflight_none(fp) == {}
find_inflight(fp) == {i \in inflight : i.fp = fp}

\* What a waiter reads from the InFlight it holds.
resolution_lost(token) == IF resolved[token] = Pending THEN Pending ELSE UpstreamTimeout
resolution(token) == resolved[token]

\* What a requester sends to its client: a response carries the requester's TXID.
emit(outcome, r) ==
    IF outcome.kind = "Response"
    THEN Response(set_transaction_id(outcome.bytes, r))
    ELSE outcome

\* A requester that has not arrived.
IdleReq ==
    [pc |-> "idle", fp |-> << >>, role |-> "-", token |-> 0, queries |-> 0,
     during |-> 0, outcome |-> Pending]
NoHit == [fp |-> << >>, entry |-> NoEntry, first |-> 0, remaining_ttl |-> 0]

CaIdle ==
    /\ inflight = {}
    /\ resolved = [r \in Requesters |-> Pending]
    /\ reqs = [r \in Requesters |-> IdleReq]
    /\ last_hit = NoHit

\* get_or_begin_inflight(fingerprint) -> Present(entry) | Leader(token) |
\* Follower(wait_handle), for requester r; a new InFlight takes r as its token.
get_or_begin_inflight(fp, r) ==
    LET found == lookup(fp, clock)
        registered == find_inflight(fp)
    IN IF found.tag = "Hit"
       THEN [tag |-> "Present", entry |-> found.entry, token |-> 0]
       ELSE IF registered # {}
       THEN [tag |-> "Follower", entry |-> NoEntry,
             token |-> (CHOOSE i \in registered : TRUE).token]
       ELSE [tag |-> "Leader", entry |-> NoEntry, token |-> r]

\* A request enters the slow path: one atomic get_or_begin_inflight.  A leader
\* sends the upstream query.  `during` is history: the requester whose upstream
\* call for the same fingerprint was in flight when this one arrived.
Request(r, fp) ==
    /\ reqs[r].pc = "idle"
    /\ LET got == get_or_begin_inflight(fp, r)
           leading == {q \in Requesters : reqs[q].pc = "leading" /\ reqs[q].fp = fp}
           during == IF leading = {} THEN 0 ELSE CHOOSE q \in leading : TRUE
           req == [IdleReq EXCEPT !.fp = fp, !.role = got.tag, !.token = got.token,
                                  !.during = during]
       IN \/ /\ got.tag = "Present"
             /\ reqs' = [reqs EXCEPT ![r] =
                            [req EXCEPT !.pc = "done",
                                        !.outcome = emit(Response(got.entry.bytes), r)]]
             /\ UNCHANGED inflight
          \/ /\ got.tag = "Leader"
             /\ inflight' = inflight \cup {[fp |-> fp, token |-> got.token]}
             /\ reqs' = [reqs EXCEPT ![r] = [req EXCEPT !.pc = "leading", !.queries = 1]]
          \/ /\ got.tag = "Follower"
             /\ reqs' = [reqs EXCEPT ![r] = [req EXCEPT !.pc = "waiting"]]
             /\ UNCHANGED inflight
    /\ UNCHANGED <<cache, resolved, last_hit, not_ca>>

\* The leader's upstream call ends and the leader calls complete(token, reply):
\* the InFlight is resolved and destroyed, and a response eligible for caching
\* is inserted with expiry = now + effective_ttl.
UpstreamReply(r, reply, via) ==
    /\ reqs[r].pc = "leading"
    /\ resolved' = [resolved EXCEPT ![reqs[r].token] = reply]
    /\ inflight' = inflight \ {[fp |-> reqs[r].fp, token |-> reqs[r].token]}
    /\ cache' = IF reply.kind = "Response" /\ cacheable(reply.bytes)
                THEN [cache EXCEPT ![reqs[r].fp] =
                        [bytes |-> reply.bytes,
                         expiry |-> clock + effective_ttl(parse_response_quick(reply.bytes).min_ttl),
                         via |-> via]]
                ELSE cache
    /\ reqs' = [reqs EXCEPT ![r].pc = "done", ![r].outcome = emit(reply, r)]
    /\ UNCHANGED <<last_hit, not_ca>>

\* A follower is woken with what its InFlight resolved to.
FollowerWake(r) ==
    /\ reqs[r].pc = "waiting"
    /\ resolution(reqs[r].token) # Pending
    /\ reqs' = [reqs EXCEPT ![r].pc = "done",
                            ![r].outcome = emit(resolution(reqs[r].token), r)]
    /\ UNCHANGED <<cache, inflight, resolved, last_hit, not_ca>>

\* A lookup of the fast path; a Hit is recorded with the first remaining_ttl
\* reported for the same entry by the lookups that followed one another.
Lookup(fp) ==
    /\ LET found == lookup(fp, clock)
       IN IF found.tag = "Hit"
          THEN last_hit' = [fp |-> fp,
                            entry |-> found.entry,
                            first |-> IF last_hit.fp = fp /\ last_hit.entry = found.entry
                                      THEN last_hit.first
                                      ELSE found.remaining_ttl,
                            remaining_ttl |-> found.remaining_ttl]
          ELSE UNCHANGED last_hit
    /\ UNCHANGED <<cache, inflight, resolved, reqs, not_ca>>

CaNext ==
    \/ Tick
    \/ \E r \in Requesters, fp \in Fingerprints : Request(r, fp)
    \/ \E r \in Requesters : \E call \in UpstreamCalls(reqs[r].fp) :
          UpstreamReply(r, call.reply, call.via)
    \/ \E r \in Requesters : FollowerWake(r)
    \/ \E fp \in Fingerprints : Lookup(fp)

(***************************************************************************)
(* Prefetch manager: PrefetchManager::new and try_prepare_job.             *)
(***************************************************************************)
Threads == {1, 2}

\* PrefetchJob { pipeline_id, qname, qtype, upstream }
PrefetchJobs ==
    { [pipeline_id |-> "p1", qname |-> "example.com", qtype |-> 1, upstream |-> "8.8.8.8:53"],
      [pipeline_id |-> "p1", qname |-> "example.com", qtype |-> 28, upstream |-> "8.8.8.8:53"] }

\* FxHasher over (pipeline_id, qname, qtype, upstream); the 64-bit hash is taken
\* to be collision-free on the jobs explored, so the fed fields stand for it.
job_hash(job) == <<"job", job.pipeline_id, job.qname, job.qtype, job.upstream>>

\* Instant::duration_since saturates to zero when `earlier` is later than self.
duration_since(now, earlier) == IF now >= earlier THEN now - earlier ELSE 0

\* let concurrency_limit = config.concurrency.max(1);
concurrency_limit_nomax(cfg) == cfg.concurrency
concurrency_limit(cfg) == IF cfg.concurrency >= 1 THEN cfg.concurrency ELSE 1

\* now.duration_since(*last) < self.config.min_interval
interval_blocks_inclusive(now, last, cfg) == duration_since(now, last) <= cfg.min_interval
interval_blocks(now, last, cfg) == duration_since(now, last) < cfg.min_interval

NoJob == [pipeline_id |-> "", qname |-> "", qtype |-> 0, upstream |-> ""]
NoInstant == -1

\* The value DashMap::get returns for `h`: NoInstant stands for None.
map_get(m, h) == IF h \in DOMAIN m THEN m[h] ELSE NoInstant
map_insert(m, h, v) == [k \in (DOMAIN m) \cup {h} |-> IF k = h THEN v ELSE m[k]]
\* DashMap::remove, and a remove that leaves the entry in place
map_remove_kept(m, h) == m
map_remove(m, h) == [k \in (DOMAIN m) \ {h} |-> m[k]]

\* A thread outside try_prepare_job.
IdleCall == [pc |-> "idle", job |-> NoJob, now |-> 0]
NoCall == [job |-> NoJob, now |-> 0, result |-> "-", pre_last |-> NoInstant, pre_avail |-> 0]
NoGrants == [j \in PrefetchJobs |-> NoInstant]

\* history: the grant of a permit for `job` to a call made at `now`
Granted(job, now) == [grants EXCEPT ![job] = now]

\* The configurations explored: concurrency 0 (raised to 1 by new), 1 and 2.
PfConfigs ==
    [enabled : BOOLEAN, hot_threshold : {10}, concurrency : {0, 1, 2}, min_interval : {2},
     ipv6_on_ipv4_enabled : {TRUE}, cdn_prefetch_enabled : {TRUE}]

\* PrefetchManager::new
PfNew(cfg) ==
    /\ config = cfg
    /\ last_prefetch = << >>
    /\ concurrency = concurrency_limit(cfg)
    /\ permits = 0
    /\ calls = [t \in Threads |-> IdleCall]
    /\ ret = NoCall
    /\ grants = NoGrants

PfInit == \E cfg \in PfConfigs : PfNew(cfg)
\* PrefetchConfig::default(), with min_interval in the model's clock units
PfIdle ==
    /\ PfNew([enabled |-> TRUE, hot_threshold |-> 10, concurrency |-> 5, min_interval |-> 2,
              ipv6_on_ipv4_enabled |-> TRUE, cdn_prefetch_enabled |-> TRUE])

(***************************************************************************)
(* Related jobs and CDN relations: related_jobs, lookup_cdn_relations and   *)
(* register_cdn_relations_from_message of src/src/prefetch.rs.  A domain    *)
(* name is the sequence of the bytes of its text.                          *)
(***************************************************************************)
\* Most relations the cdn_relations cache holds in a behaviour explored.
MaxRelations == 2
\* Number of related_jobs and record_access calls made in one behaviour.
MaxLookups == 2

CNAME_CHAIN_LIMIT == 8
CNAME_RELATION_LIMIT == 32
\* RecordType::A and RecordType::AAAA
TypeA == 1
TypeAAAA == 28

\* str::to_ascii_lowercase and str::trim_end_matches('.')
str_to_ascii_lowercase(text) == [i \in 1..Len(text) |-> to_ascii_lowercase(text[i])]
RECURSIVE trim_end_matches_dot(_)
trim_end_matches_dot(text) ==
    IF Len(text) > 0 /\ text[Len(text)] = 46
    THEN trim_end_matches_dot(SubSeq(text, 1, Len(text) - 1))
    ELSE text
normalize_domain_str(domain) == str_to_ascii_lowercase(trim_end_matches_dot(domain))

\* FxHasher over pipeline_id, upstream and the lower-cased bytes of primary; the
\* 64-bit hash is taken to be collision-free on the keys explored, so what is
\* fed to the hasher stands for it.
cdn_relation_key_exact(pipeline_id, upstream, primary) ==
    <<"cdn", pipeline_id, upstream, primary>>
cdn_relation_key(pipeline_id, upstream, primary) ==
    <<"cdn", pipeline_id, upstream, str_to_ascii_lowercase(primary)>>

\* FxHasher over pipeline_id, the lower-cased bytes of qname, and qtype
calculate_cache_hash(pipeline_id, qname, qtype) ==
    <<"cache", pipeline_id, str_to_ascii_lowercase(qname), qtype>>

\* The value Cache::get returns: NoRelation stands for None.
NoRelation == << >>
lookup_cdn_relations(pipeline_id, upstream, primary) ==
    LET key == cdn_relation_key(pipeline_id, upstream, primary)
    IN IF key \in DOMAIN cdn_relations THEN cdn_relations[key] ELSE NoRelation

\* lines 375-383: lookup_cdn_relations counts the lookup, and the hit when the
\* cache holds the key
hit_counted_always(value) == TRUE
hit_counted(value) == value # NoRelation
CountLookup(pipeline_id, upstream, primary) ==
    /\ cdn_relation_lookups' = cdn_relation_lookups + 1
    /\ cdn_relation_hits' =
          IF hit_counted(lookup_cdn_relations(pipeline_id, upstream, primary))
          THEN cdn_relation_hits + 1
          ELSE cdn_relation_hits
\* history: a call that looks a relation up when CDN prefetch is on is made, with
\* or without a relation stored under (pipeline, upstream, lower-cased name)
NoLookupOps == [related_jobs |-> 0, record_access |-> 0]
lookup_ops_made == lookup_ops.related_jobs + lookup_ops.record_access
NoteLookupOp(made, pipeline_id, upstream, primary) ==
    /\ lookup_ops' = made
    /\ lookup_found' =
          IF <<"cdn", pipeline_id, upstream,
               [i \in 1..Len(primary) |-> IF primary[i] \in 65..90 THEN primary[i] + 32
                                          ELSE primary[i]]>> \in DOMAIN cdn_relations
          THEN lookup_found + 1
          ELSE lookup_found

\* lines 218-231: the jobs pushed for the domains of a relation
cdn_jobs(pipeline_id, related_domains, original_qtype, upstream) ==
    [i \in 1..Len(related_domains) |->
        [pipeline_id |-> pipeline_id, qname |-> related_domains[i],
         qtype |-> original_qtype, upstream |-> upstream]]

\* lines 205-212: if self.config.ipv6_on_ipv4_enabled && original_qtype == RecordType::A
ipv6_job_wanted_any_type(cfg, original_qtype) == cfg.ipv6_on_ipv4_enabled
ipv6_job_wanted(cfg, original_qtype) ==
    cfg.ipv6_on_ipv4_enabled /\ original_qtype = TypeA

\* lines 218-219: if self.config.cdn_prefetch_enabled
cdn_jobs_wanted(cfg) == cfg.cdn_prefetch_enabled

\* lines 190-234
related_jobs(pipeline_id, qname, original_qtype, upstream) ==
    IF ~config.enabled THEN << >>
    ELSE (IF ipv6_job_wanted(config, original_qtype)
          THEN << [pipeline_id |-> pipeline_id, qname |-> qname,
                   qtype |-> TypeAAAA, upstream |-> upstream] >>
          ELSE << >>)
         \o (IF cdn_jobs_wanted(config)
             THEN cdn_jobs(pipeline_id, lookup_cdn_relations(pipeline_id, upstream, qname),
                           original_qtype, upstream)
             ELSE << >>)

\* lines 307-318: the CNAME graph of the answers, owner -> targets in the order
\* of the answers; a record whose owner is its own target is skipped.
RECURSIVE cname_graph(_)
cname_graph(answers) ==
    IF Len(answers) = 0 THEN << >>
    ELSE LET rest == cname_graph(SubSeq(answers, 1, Len(answers) - 1))
             record == answers[Len(answers)]
             owner == normalize_domain_str(record.name)
             target_norm == normalize_domain_str(record.target)
         IN IF owner = target_norm THEN rest
            ELSE map_insert(rest, owner,
                            (IF owner \in DOMAIN rest THEN rest[owner] ELSE << >>)
                                \o <<target_norm>>)

\* line 345: if !seen.insert(Arc::clone(next)) { continue; }
seen_insert_always(seen, next) == TRUE
seen_insert(seen, next) == next \notin seen

\* lines 341-354: the candidates of one node, from the i-th on
RECURSIVE visit_candidates(_, _, _, _, _, _)
visit_candidates(next_candidates, i, depth, origin_norm, walk, limit) ==
    IF i > Len(next_candidates) THEN walk
    ELSE LET next == next_candidates[i]
         IN IF next = origin_norm \/ ~seen_insert(walk.seen, next)
            THEN visit_candidates(next_candidates, i + 1, depth, origin_norm, walk, limit)
            ELSE LET related_domains == walk.related \o <<next>>
                 IN IF Len(related_domains) >= limit
                    THEN [walk EXCEPT !.related = related_domains, !.stop = TRUE,
                                      !.seen = @ \cup {next}]
                    ELSE visit_candidates(next_candidates, i + 1, depth, origin_norm,
                             [walk EXCEPT !.related = related_domains,
                                          !.seen = @ \cup {next},
                                          !.queue = @ \o <<[name |-> next, depth |-> depth + 1]>>],
                             limit)

\* line 331: if depth >= CNAME_CHAIN_LIMIT { continue; }
chain_limit_reached_late(depth) == depth > CNAME_CHAIN_LIMIT
chain_limit_reached(depth) == depth >= CNAME_CHAIN_LIMIT

\* lines 327-355: the breadth-first walk over the CNAME graph
RECURSIVE cname_walk(_, _, _, _)
cname_walk(graph, origin_norm, walk, limit) ==
    IF walk.stop \/ Len(walk.queue) = 0 THEN walk.related
    ELSE LET current == Head(walk.queue)
             popped == [walk EXCEPT !.queue = Tail(@)]
         IN IF chain_limit_reached(current.depth) \/ current.name \notin DOMAIN graph
            THEN cname_walk(graph, origin_norm, popped, limit)
            ELSE cname_walk(graph, origin_norm,
                            visit_candidates(graph[current.name], 1, current.depth,
                                             origin_norm, popped, limit),
                            limit)

\* the walk without the test of line 350 (related.len() >= CNAME_RELATION_LIMIT)
related_domains_unlimited(origin, answers) ==
    LET origin_norm == normalize_domain_str(origin)
    IN cname_walk(cname_graph(answers), origin_norm,
                  [queue |-> <<[name |-> origin_norm, depth |-> 0]>>,
                   seen |-> {origin_norm}, related |-> << >>, stop |-> FALSE],
                  Len(answers) + 2)

\* lines 304-322: the domains related to origin by the answers of a message
related_domains_of(origin, answers) ==
    LET origin_norm == normalize_domain_str(origin)
    IN cname_walk(cname_graph(answers), origin_norm,
                  [queue |-> <<[name |-> origin_norm, depth |-> 0]>>,
                   seen |-> {origin_norm}, related |-> << >>, stop |-> FALSE],
                  CNAME_RELATION_LIMIT)

\* The calls explored: a pipeline with an upstream, by each of two upstreams
\* and by each of two pipelines.
Routes == { <<"p1", "8.8.8.8:53">>, <<"p1", "1.1.1.1:53">>, <<"p2", "8.8.8.8:53">> }
\* "a", "A", "b" and "a."
RelQnames == { <<97>>, <<65>>, <<98>>, <<97, 46>> }
\* "a" and "A."
Origins == { <<97>>, <<65, 46>> }
\* CNAME answers: none; a. -> b. -> c.; a. -> b. twice, b. -> a. and a. -> a.;
\* A. -> B.
Cname(name, target) == [name |-> name, target |-> target]
CnameAnswers ==
    { << >>,
      << Cname(<<97, 46>>, <<98, 46>>), Cname(<<98, 46>>, <<99, 46>>) >>,
      << Cname(<<97, 46>>, <<98, 46>>), Cname(<<97, 46>>, <<98, 46>>),
         Cname(<<98, 46>>, <<97, 46>>), Cname(<<97, 46>>, <<97, 46>>) >>,
      << Cname(<<65, 46>>, <<66, 46>>) >> }
\* The keys a relation may be stored under.
RelationKeys ==
    { cdn_relation_key(route[1], route[2], normalize_domain_str(origin)) :
        route \in Routes, origin \in Origins }

NoRelated == [called |-> FALSE, pipeline_id |-> "", qname |-> << >>, qtype |-> 0,
              upstream |-> "", jobs |-> << >>]
RelIdle ==
    /\ cdn_relations = << >>
    /\ related = NoRelated

\* register_cdn_relations_from_message, lines 295-366
RegisterCdnRelations(pipeline_id, upstream, origin, answers) ==
    /\ LET related_domains == related_domains_of(origin, answers)
           key == cdn_relation_key(pipeline_id, upstream, normalize_domain_str(origin))
       IN cdn_relations' =
              IF ~config.enabled \/ ~config.cdn_prefetch_enabled THEN cdn_relations
              ELSE IF Len(related_domains) = 0 THEN map_remove(cdn_relations, key)
              ELSE map_insert(cdn_relations, key, related_domains)
    /\ Cardinality(DOMAIN cdn_relations') <= MaxRelations
    /\ UNCHANGED <<related, not_rel>>

\* The cache drops an entry: its time to live has passed (lines 111-114).
RelationExpires(key) ==
    /\ key \in DOMAIN cdn_relations
    /\ cdn_relations' = map_remove(cdn_relations, key)
    /\ UNCHANGED <<related, not_rel>>

\* related_jobs is called, lines 190-234
RelatedJobs(pipeline_id, qname, original_qtype, upstream) ==
    /\ lookup_ops_made < MaxLookups
    /\ related' = [called |-> TRUE, pipeline_id |-> pipeline_id, qname |-> qname,
                   qtype |-> original_qtype, upstream |-> upstream,
                   jobs |-> related_jobs(pipeline_id, qname, original_qtype, upstream)]
    /\ IF config.enabled /\ cdn_jobs_wanted(config)
       THEN CountLookup(pipeline_id, upstream, qname)
       ELSE UNCHANGED <<cdn_relation_lookups, cdn_relation_hits>>
    /\ NoteLookupOp([lookup_ops EXCEPT !.related_jobs = @ + 1], pipeline_id, upstream, qname)
    /\ UNCHANGED <<cdn_relations, registration, hot_vars, pf_vars, not_mgr>>

RelNext ==
    \/ \E route \in Routes, origin \in Origins, answers \in CnameAnswers :
           RegisterCdnRelations(route[1], route[2], origin, answers)
    \/ \E key \in RelationKeys : RelationExpires(key)
    \/ \E route \in Routes, qname \in RelQnames, original_qtype \in {TypeA, TypeAAAA} :
           RelatedJobs(route[1], qname, original_qtype, route[2])

\* The configurations explored: every combination of the three switches.
RelConfigs ==
    [enabled : BOOLEAN, hot_threshold : {10}, concurrency : {5}, min_interval : {2},
     ipv6_on_ipv4_enabled : BOOLEAN, cdn_prefetch_enabled : BOOLEAN]

(***************************************************************************)
(* register_cdn_relations_from_response, lines 277-293: the response is    *)
(* decoded by Message::from_bytes and, when that succeeds, handed to        *)
(* register_cdn_relations_from_message.  A response is what the decoder    *)
(* makes of it: nothing, or the records of its answer section.             *)
(***************************************************************************)
\* Links of the longest CNAME chain explored, and targets of the widest fan.
MaxChain == 9
MaxFan == 33

\* RecordType::CNAME
TypeCNAME == 5

Record(name, rtype, target) == [name |-> name, rtype |-> rtype, target |-> target]
\* "a." -> "b." -> ... : a chain of `links` CNAME records from "a."
CnameChain(links) ==
    [i \in 1..links |-> Record(<<96 + i, 46>>, TypeCNAME, <<97 + i, 46>>)]
\* "a." -> "d1.", "a." -> "d2.", ... : `width` CNAME records of one owner
FanTarget(i) == <<100 + (i \div 10), 48 + (i % 10), 46>>
CnameFan(width) ==
    [i \in 1..width |-> Record(<<97, 46>>, TypeCNAME, FanTarget(i))]

Unparsable == [parses |-> FALSE, answers |-> << >>]
Parsed(answers) == [parses |-> TRUE, answers |-> answers]
\* The responses explored: one that does not decode; no answer; an address
\* only; CNAMEs that do not leave "a"; the branches a -> b, a -> c, b -> d of
\* the test, in mixed case and with an address record; a cycle with a
\* short cut; a chain of MaxChain links; fans of CNAME_RELATION_LIMIT and of
\* MaxFan targets.
RegResponses ==
    { Unparsable,
      Parsed(<< >>),
      Parsed(<< Record(<<97, 46>>, TypeA, <<98, 46>>) >>),
      Parsed(<< Record(<<120, 46>>, TypeCNAME, <<121, 46>>),
                Record(<<97, 46>>, TypeCNAME, <<65, 46>>) >>),
      Parsed(<< Record(<<65, 46>>, TypeCNAME, <<66, 46>>),
                Record(<<97, 46>>, TypeCNAME, <<99, 46>>),
                Record(<<98, 46>>, TypeCNAME, <<68, 46>>),
                Record(<<100, 46>>, TypeA, <<101, 46>>) >>),
      Parsed(<< Record(<<97, 46>>, TypeCNAME, <<98, 46>>),
                Record(<<98, 46>>, TypeCNAME, <<99, 46>>),
                Record(<<99, 46>>, TypeCNAME, <<97, 46>>),
                Record(<<97, 46>>, TypeCNAME, <<99, 46>>),
                Record(<<99, 46>>, TypeCNAME, <<99, 46>>) >>),
      Parsed(CnameChain(MaxChain)),
      Parsed(CnameFan(CNAME_RELATION_LIMIT)),
      Parsed(CnameFan(MaxFan)) }
\* "a" and "A.", registered by each of two pipelines
RegOrigins == { <<97>>, <<65, 46>> }
RegRoutes == { <<"p1", "8.8.8.8:53">>, <<"p2", "8.8.8.8:53">> }

\* lines 309-313: only the CNAME records of the answer section are used
cname_records(answers) == SelectSeq(answers, LAMBDA record : record.rtype = TypeCNAME)

\* the same without the invalidation of line 363
register_without_invalidate(pipeline_id, upstream, origin, answers) ==
    LET related_domains == related_domains_of(origin, cname_records(answers))
        key == cdn_relation_key(pipeline_id, upstream, normalize_domain_str(origin))
    IN IF ~config.enabled \/ ~config.cdn_prefetch_enabled THEN cdn_relations
       ELSE IF Len(related_domains) = 0 THEN cdn_relations
       ELSE map_insert(cdn_relations, key, related_domains)

\* lines 302-366: the cache after register_cdn_relations_from_message
register_cdn_relations_from_message(pipeline_id, upstream, origin, answers) ==
    LET related_domains == related_domains_of(origin, cname_records(answers))
        key == cdn_relation_key(pipeline_id, upstream, normalize_domain_str(origin))
    IN IF ~config.enabled \/ ~config.cdn_prefetch_enabled THEN cdn_relations
       ELSE IF Len(related_domains) = 0 THEN map_remove(cdn_relations, key)
       ELSE map_insert(cdn_relations, key, related_domains)


NoRegistered == [called |-> FALSE, pipeline_id |-> "", upstream |-> "",
                 origin |-> << >>, response |-> Unparsable, replaced |-> NoRelation]

(***************************************************************************)
(* record_access, lines 126-193, step by step as concurrent callers run it. *)
(* hot_domains is a DashMap: entry(key) takes the write lock of the key's   *)
(* shard and blocks while any thread, the caller included, holds it; the    *)
(* guard or_insert_with returns keeps the lock until it is dropped.  The    *)
(* guard of the entry of `hash` (prefetch_entry) lives to the end of the    *)
(* function, the guard of a related domain (cdn_entry) to the end of its    *)
(* loop iteration.                                                          *)
(***************************************************************************)
\* CacheEntry { source, qname, pipeline_id, qtype }, for "a" and "b"
CacheEntryOf(qname) ==
    [pipeline_id |-> "p1", source |-> "8.8.8.8:53", qname |-> qname, qtype |-> TypeA]
\* The calls explored: an entry with the fingerprint of its name.
Accesses ==
    { [hash |-> calculate_cache_hash("p1", qname, TypeA), entry |-> CacheEntryOf(qname)] :
        qname \in { <<97>>, <<98>> } }
\* The fingerprints hot_domains may hold: those of "a", "b" and "c".
HotKeys == { calculate_cache_hash("p1", <<b>>, TypeA) : b \in 97..99 }
\* The shards, and the placements explored: each fingerprint in a shard of its
\* own, or "c" in the shard of "a".
Shards == {0, 1, 2}
Sharding(a, b, c) ==
    [k \in HotKeys |-> IF k[3] = <<97>> THEN a ELSE IF k[3] = <<98>> THEN b ELSE c]
ShardsApart == Sharding(0, 1, 2)
Shardings == { ShardsApart, Sharding(0, 1, 0) }

IdleAccess == [pc |-> "idle", hash |-> << >>, entry |-> CacheEntryOf(<< >>),
               related |-> NoRelation, i |-> 0, marks |-> << >>, now |-> 0]
NoExpected == [k \in HotKeys |-> 0]

\* PrefetchManager::new, lines 104-123: the maps are empty, the counters 0
MgrNew(sharding) ==
    /\ registration = NoRegistered
    /\ cdn_relation_lookups = 0
    /\ cdn_relation_hits = 0
    /\ lookup_ops = NoLookupOps
    /\ lookup_found = 0
    /\ hot_domains = << >>
    /\ shard_of = sharding
    /\ shard_locks = [s \in Shards |-> 0]
    /\ access = [t \in Threads |-> IdleAccess]
    /\ expected = NoExpected
MgrIdle == MgrNew(ShardsApart)

\* lines 142-155 and 169-181: entry(key).or_insert_with(..), then
\* access_count += 1 and last_access = now
count_access(domains, key, qname, entry, now) ==
    LET found == IF key \in DOMAIN domains THEN domains[key]
                 ELSE [qname |-> qname, qtype |-> entry.qtype, upstream |-> entry.source,
                       access_count |-> 0, last_access |-> now, first_access |-> now]
    IN map_insert(domains, key,
                  [found EXCEPT !.access_count = @ + 1, !.last_access = now])

\* line 158 and line 182: if access_count >= self.config.hot_threshold
is_hot_above(prefetch_entry) == prefetch_entry.access_count > config.hot_threshold
is_hot(prefetch_entry) == prefetch_entry.access_count >= config.hot_threshold

\* history: the increments a call owes, one to `hash` and one to the
\* fingerprint of each domain of the relation stored for the entry
owed(hash, entry) ==
    LET key == <<"cdn", entry.pipeline_id, entry.source,
                 [i \in 1..Len(entry.qname) |-> reference_lower(entry.qname[i])]>>
        domains == IF config.cdn_prefetch_enabled /\ key \in DOMAIN cdn_relations
                   THEN cdn_relations[key] ELSE << >>
    IN [k \in HotKeys |->
          expected[k] + (IF k = hash THEN 1 ELSE 0)
            + Cardinality({ i \in 1..Len(domains) :
                              k = <<"cache", entry.pipeline_id, domains[i], entry.qtype>> })]

\* lines 127-129: if !self.config.enabled { return; }
access_disabled_never == FALSE
access_disabled == ~config.enabled

\* lines 127-141: the enabled test, the lookup of the relation, Instant::now()
AccessBegin(t, hash, entry) ==
    /\ access[t].pc = "idle"
    /\ lookup_ops_made < MaxLookups
    /\ NoteLookupOp([lookup_ops EXCEPT !.record_access = @ + 1],
                    entry.pipeline_id, entry.source, entry.qname)
    /\ IF access_disabled
       THEN UNCHANGED <<access, expected, cdn_relation_lookups, cdn_relation_hits>>
       ELSE /\ access' = [access EXCEPT ![t] =
                  [pc |-> "entry", hash |-> hash, entry |-> entry,
                   related |-> IF config.cdn_prefetch_enabled
                               THEN lookup_cdn_relations(entry.pipeline_id, entry.source,
                                                         entry.qname)
                               ELSE NoRelation,
                   i |-> 1, marks |-> << >>, now |-> clock]]
            /\ expected' = owed(hash, entry)
            /\ IF config.cdn_prefetch_enabled
               THEN CountLookup(entry.pipeline_id, entry.source, entry.qname)
               ELSE UNCHANGED <<cdn_relation_lookups, cdn_relation_hits>>
    /\ UNCHANGED <<hot_domains, shard_of, shard_locks, registration, rel_vars, pf_vars,
                   not_mgr>>

\* lines 142-160: the entry of `hash` is taken, which locks its shard until the
\* function returns, and counted
AccessEntry(t) ==
    /\ access[t].pc = "entry"
    /\ shard_locks[shard_of[access[t].hash]] = 0
    /\ shard_locks' = [shard_locks EXCEPT ![shard_of[access[t].hash]] = t]
    /\ hot_domains' = count_access(hot_domains, access[t].hash, access[t].entry.qname,
                                   access[t].entry, access[t].now)
    /\ access' = [access EXCEPT ![t].pc = "related",
                                ![t].marks = IF is_hot(hot_domains'[access[t].hash])
                                             THEN <<access[t].hash>> ELSE << >>]
    /\ UNCHANGED <<shard_of, expected, registration, stat_vars, rel_vars, pf_vars, not_mgr>>

\* lines 163-185: one iteration of the loop over the related domains; the entry
\* is taken (the shard must be free), counted and released
AccessRelated(t) ==
    /\ access[t].pc = "related"
    /\ access[t].i <= Len(access[t].related)
    /\ LET cdn_domain == access[t].related[access[t].i]
           cdn_hash == calculate_cache_hash(access[t].entry.pipeline_id, cdn_domain,
                                            access[t].entry.qtype)
       IN /\ shard_locks[shard_of[cdn_hash]] = 0
          /\ hot_domains' = count_access(hot_domains, cdn_hash, cdn_domain,
                                         access[t].entry, access[t].now)
          /\ access' = [access EXCEPT ![t].i = @ + 1,
                                      ![t].marks = IF is_hot(hot_domains'[cdn_hash])
                                                   THEN @ \o <<cdn_hash>> ELSE @]
    /\ UNCHANGED <<shard_of, shard_locks, expected, registration, stat_vars, rel_vars,
                   pf_vars, not_mgr>>

\* lines 188-192: self.last_prefetch.entry(hash).or_insert(now), one hash a step
AccessMark(t) ==
    /\ access[t].pc = "related"
    /\ access[t].i > Len(access[t].related)
    /\ Len(access[t].marks) > 0
    /\ last_prefetch' =
          IF Head(access[t].marks) \in DOMAIN last_prefetch THEN last_prefetch
          ELSE map_insert(last_prefetch, Head(access[t].marks), access[t].now)
    /\ access' = [access EXCEPT ![t].marks = Tail(@)]
    /\ UNCHANGED <<config, concurrency, permits, calls, ret, grants>>
    /\ UNCHANGED <<hot_domains, shard_of, shard_locks, expected, registration, stat_vars,
                   rel_vars, not_mgr>>

\* line 193: the function returns and prefetch_entry is dropped
AccessReturn(t) ==
    /\ access[t].pc = "related"
    /\ access[t].i > Len(access[t].related)
    /\ Len(access[t].marks) = 0
    /\ shard_locks' = [shard_locks EXCEPT ![shard_of[access[t].hash]] = 0]
    /\ access' = [access EXCEPT ![t] = IdleAccess]
    /\ UNCHANGED <<hot_domains, shard_of, expected, registration, stat_vars, rel_vars,
                   pf_vars, not_mgr>>

RECURSIVE total_accesses(_)
total_accesses(domains) ==
    IF DOMAIN domains = {} THEN 0
    ELSE LET key == CHOOSE key \in DOMAIN domains : TRUE
         IN domains[key].access_count + total_accesses(map_remove(domains, key))
\* get_stats, lines 432-447
get_stats ==
    [total_domains |-> Cardinality(DOMAIN hot_domains),
     hot_domains |-> Cardinality({ key \in DOMAIN hot_domains : is_hot(hot_domains[key]) }),
     total_accesses |-> total_accesses(hot_domains)]
\* cdn_relation_stats, lines 385-399 (without the rate)
cdn_relation_stats == [lookups |-> cdn_relation_lookups, hits |-> cdn_relation_hits]

\* The configurations explored: a threshold of 1 or 2 accesses, CDN prefetch on or off.
AccessConfigs ==
    [enabled : {TRUE}, hot_threshold : {1, 2}, concurrency : {5}, min_interval : {2},
     ipv6_on_ipv4_enabled : {TRUE}, cdn_prefetch_enabled : BOOLEAN]
\* "a." -> "b." -> "c."
ChainOfTwo == << Cname(<<97, 46>>, <<98, 46>>), Cname(<<98, 46>>, <<99, 46>>) >>

AccessSteps(t) ==
    \/ AccessEntry(t)
    \/ AccessRelated(t)
    \/ AccessMark(t)
    \/ AccessReturn(t)
AccessNext ==
    \/ Tick
    \/ RegisterCdnRelations("p1", "8.8.8.8:53", <<97>>, ChainOfTwo)
    \/ \E t \in Threads, call \in Accesses : AccessBegin(t, call.hash, call.entry)
    \/ \E t \in Threads : AccessSteps(t)

\* register_cdn_relations_from_response, lines 277-293
RegisterFromResponse(pipeline_id, upstream, origin, response) ==
    /\ cdn_relations' =
          IF ~config.enabled \/ ~config.cdn_prefetch_enabled THEN cdn_relations
          ELSE IF ~response.parses THEN cdn_relations
          ELSE register_cdn_relations_from_message(pipeline_id, upstream, origin,
                                                   response.answers)
    /\ registration' = [called |-> TRUE,
                      pipeline_id |-> pipeline_id, upstream |-> upstream,
                      origin |-> origin, response |-> response,
                      replaced |-> lookup_cdn_relations(pipeline_id, upstream,
                                       normalize_domain_str(origin))]
    /\ UNCHANGED <<related, stat_vars, hot_vars, pf_vars, not_mgr>>

RegNext ==
    \/ \E route \in RegRoutes, origin \in RegOrigins, response \in RegResponses :
           RegisterFromResponse(route[1], route[2], origin, response)
    \/ \E key \in RelationKeys : RelationExpires(key)

\* The configurations explored: prefetch and CDN prefetch on or off.
RegConfigs == { cfg \in RelConfigs : cfg.ipv6_on_ipv4_enabled }

\* An OwnedSemaphorePermit is dropped: its slot goes back to the semaphore.
DropPermit ==
    /\ permits > 0
    /\ permits' = permits - 1
    /\ concurrency' = concurrency + 1
    /\ UNCHANGED <<config, last_prefetch, calls, ret, grants, not_pf>>

(***************************************************************************)
(* try_prepare_job step by step, as concurrent callers run it: each access *)
(* to last_prefetch (a DashMap) and to the semaphore is atomic, the        *)
(* function as a whole is not.                                             *)
(***************************************************************************)
\* lines 238-243: the enabled test, job_hash and Instant::now().
TryPrepareBegin(t, job) ==
    /\ calls[t].pc = "idle"
    /\ IF config.enabled
       THEN calls' = [calls EXCEPT ![t] = [pc |-> "check", job |-> job, now |-> clock]]
       ELSE calls' = calls
    /\ UNCHANGED <<config, last_prefetch, concurrency, permits, ret, grants,
                   not_pf>>

\* lines 245-249: the read of last_prefetch and the min_interval test.
TryPrepareCheck(t) ==
    /\ calls[t].pc = "check"
    /\ LET last == map_get(last_prefetch, job_hash(calls[t].job))
       IN IF last # NoInstant /\ interval_blocks(calls[t].now, last, config)
          THEN calls' = [calls EXCEPT ![t] = IdleCall]
          ELSE calls' = [calls EXCEPT ![t].pc = "insert"]
    /\ UNCHANGED <<config, last_prefetch, concurrency, permits, ret, grants,
                   not_pf>>

\* line 250: self.last_prefetch.insert(hash, now)
TryPrepareInsert(t) ==
    /\ calls[t].pc = "insert"
    /\ last_prefetch' = map_insert(last_prefetch, job_hash(calls[t].job), calls[t].now)
    /\ calls' = [calls EXCEPT ![t].pc = "acquire"]
    /\ UNCHANGED <<config, concurrency, permits, ret, grants, not_pf>>

\* lines 252-254: try_acquire_owned on the semaphore.
TryPrepareAcquire(t) ==
    /\ calls[t].pc = "acquire"
    /\ IF concurrency > 0
       THEN /\ concurrency' = concurrency - 1
            /\ permits' = permits + 1
            /\ calls' = [calls EXCEPT ![t] = IdleCall]
            /\ grants' = Granted(calls[t].job, calls[t].now)
       ELSE /\ calls' = [calls EXCEPT ![t].pc = "remove"]
            /\ UNCHANGED <<concurrency, permits, grants>>
    /\ UNCHANGED <<config, last_prefetch, ret, not_pf>>

\* lines 254-257: no slot, so the entry just inserted is removed again.
TryPrepareRemove(t) ==
    /\ calls[t].pc = "remove"
    /\ last_prefetch' = map_remove(last_prefetch, job_hash(calls[t].job))
    /\ calls' = [calls EXCEPT ![t] = IdleCall]
    /\ UNCHANGED <<config, concurrency, permits, ret, grants, not_pf>>

PfNext ==
    \/ Tick
    \/ DropPermit
    \/ \E t \in Threads, job \in PrefetchJobs : TryPrepareBegin(t, job)
    \/ \E t \in Threads : TryPrepareCheck(t)
    \/ \E t \in Threads : TryPrepareInsert(t)
    \/ \E t \in Threads : TryPrepareAcquire(t)
    \/ \E t \in Threads : TryPrepareRemove(t)

(***************************************************************************)
(* Rule operators: MatchOperator and its deserialization, lines 257-274 of *)
(* src/src/config.rs.  The evaluation of a rule's matchers is not part of  *)
(* the sources at hand; it follows the combiner semantics of the           *)
(* specification: matchers in declaration order, AND-NOT and OR-NOT negate *)
(* each predicate after the first before folding, evaluation short-circuits.*)
(***************************************************************************)
\* Most predicates of a rule explored.
MaxPredicates == 3

\* The field is absent from the JSON of the rule.
Omitted == "<omitted>"
\* fn default_match_operator() -> MatchOperator
default_match_operator == "And"
\* #[serde(rename_all = "lowercase")] with the aliases of AndNot and OrNot; Not
\* is skipped; any other name is a deserialization error.
Undeserializable == "<error>"
match_operator(text) ==
    CASE text = "and" -> "And"
      [] text = "or" -> "Or"
      [] text \in {"andnot", "not", "and_not", "and-not"} -> "AndNot"
      [] text \in {"ornot", "or_not", "or-not"} -> "OrNot"
      [] text = Omitted -> default_match_operator
      [] OTHER -> Undeserializable
OperatorTexts ==
    { Omitted, "and", "or", "andnot", "not", "and_not", "and-not", "ornot", "or_not",
      "or-not", "nand" }

\* the value the i-th predicate contributes under an operator
combiner_term_plain(operator, i, holds) == holds
combiner_term(operator, i, holds) ==
    IF i > 1 /\ operator \in {"AndNot", "OrNot"} THEN ~holds ELSE holds
\* the fold of the value so far with the next term
combiner_fold(operator, i, acc, term) ==
    IF i = 1 THEN term
    ELSE IF operator \in {"And", "AndNot"} THEN acc /\ term
    ELSE acc \/ term
\* the result is decided: no later predicate can change it
combiner_decided(operator, acc) ==
    IF operator \in {"And", "AndNot"} THEN ~acc ELSE acc

PredicateValues == UNION { [1..k -> BOOLEAN] : k \in 1..MaxPredicates }
NoRule == [text |-> Omitted, operator |-> Undeserializable, predicates |-> << >>]
NoMatching == [next |-> 0, result |-> FALSE, done |-> FALSE, evaluated |-> 0]

\* A rule is deserialized, its matcher_operator given by `text`, and met by a
\* request on which its predicates have the values `holds`.
LoadRule(text, holds) ==
    /\ rule = NoRule
    /\ match_operator(text) # Undeserializable
    /\ rule' = [text |-> text, operator |-> match_operator(text), predicates |-> holds]
    /\ matching' = [NoMatching EXCEPT !.next = 1]
    /\ UNCHANGED <<settings, response_eval, loaded, deserialized, not_cfg>>

\* The next predicate is evaluated and folded in.
EvalPredicate ==
    /\ matching.next >= 1
    /\ ~matching.done
    /\ LET i == matching.next
           term == combiner_term(rule.operator, i, rule.predicates[i])
           acc == combiner_fold(rule.operator, i, matching.result, term)
       IN matching' = [next |-> i + 1, result |-> acc, evaluated |-> i,
                       done |-> \/ i = Len(rule.predicates)
                                \/ combiner_decided(rule.operator, acc)]
    /\ UNCHANGED <<rule, settings, response_eval, loaded, deserialized, not_cfg>>

RuleNext ==
    \/ \E text \in OperatorTexts, holds \in PredicateValues : LoadRule(text, holds)
    \/ EvalPredicate

(***************************************************************************)
(* Response-phase evaluation.  GlobalSettings.response_jump_limit and its  *)
(* default are lines 43-45 and 449-451 of src/src/config.rs; the evaluation*)
(* itself is not part of the sources at hand and follows the specification:*)
(* jump_to_pipeline restarts response-phase evaluation in the named        *)
(* pipeline, bounded by response_jump_limit, further jumps are no-ops;     *)
(* continue and log go on with the current response; allow terminates with *)
(* the current response; deny and static_response terminate with a         *)
(* synthesized one; an exhausted list terminates with the current response.*)
(***************************************************************************)
\* fn default_response_jump_limit() -> u32
default_response_jump_limit == 10
\* #[serde(default = "default_response_jump_limit")] pub response_jump_limit: u32
\* A field of the JSON is absent, << >>, or given, <<value>>.
Absent == << >>
Given(value) == <<value>>
GlobalSettings(field) ==
    [response_jump_limit |-> IF field = Absent THEN default_response_jump_limit ELSE field[1]]
JumpLimitFields == { Absent, Given(0), Given(1), Given(2), Given(3) }

Log == [kind |-> "log", pipeline |-> ""]
Continue == [kind |-> "continue", pipeline |-> ""]
Allow == [kind |-> "allow", pipeline |-> ""]
Deny == [kind |-> "deny", pipeline |-> ""]
StaticResponse == [kind |-> "static_response", pipeline |-> ""]
JumpToPipeline(id) == [kind |-> "jump_to_pipeline", pipeline |-> id]

PipelineIds == { "p1", "p2" }
\* The response actions each pipeline applies to the response at hand.
Pipelines(p1, p2) == [id \in PipelineIds |-> IF id = "p1" THEN p1 ELSE p2]
PipelineSets ==
    { \* two pipelines that jump to each other
      Pipelines(<<Log, JumpToPipeline("p2")>>, <<JumpToPipeline("p1"), Allow>>),
      \* a pipeline that jumps to itself, then synthesizes a response
      Pipelines(<<JumpToPipeline("p1"), StaticResponse>>, <<Deny>>),
      \* a cycle whose lists end without a terminal action
      Pipelines(<<Continue, JumpToPipeline("p2"), Log>>, <<JumpToPipeline("p1")>>),
      \* one jump, no cycle
      Pipelines(<<JumpToPipeline("p2"), Deny>>, <<Log, Allow>>),
      \* no jump
      Pipelines(<<Log, Continue>>, <<Allow>>) }

NoEval ==
    [pc |-> "idle", pipelines |-> Pipelines(<< >>, << >>), pipeline |-> "", index |-> 0,
     jumps |-> 0, response |-> "", skipped |-> 0]

jump_limit_reached_late(jumps, limit) == jumps > limit
jump_limit_reached(jumps, limit) == jumps >= limit

\* The response of the upstream arrives: response-phase evaluation starts in
\* the pipeline that handled the request.
BeginResponsePhase(pipelines, id) ==
    /\ response_eval.pc = "idle"
    /\ response_eval' =
           [pc |-> "running", pipelines |-> pipelines, pipeline |-> id, index |-> 1,
            jumps |-> 0, response |-> "upstream", skipped |-> 0]
    /\ UNCHANGED <<rule, matching, settings, loaded, deserialized, not_cfg>>

\* The action at hand is applied.
ResponseStep ==
    /\ response_eval.pc = "running"
    /\ LET actions == response_eval.pipelines[response_eval.pipeline]
           i == response_eval.index
       IN IF i > Len(actions)
          THEN response_eval' = [response_eval EXCEPT !.pc = "done"]
          ELSE LET action == actions[i]
               IN CASE action.kind \in {"log", "continue"} ->
                           response_eval' = [response_eval EXCEPT !.index = i + 1]
                    [] action.kind = "allow" ->
                           response_eval' = [response_eval EXCEPT !.pc = "done"]
                    [] action.kind = "deny" ->
                           response_eval' =
                               [response_eval EXCEPT !.pc = "done", !.response = "refused"]
                    [] action.kind = "static_response" ->
                           response_eval' =
                               [response_eval EXCEPT !.pc = "done", !.response = "static"]
                    [] action.kind = "jump_to_pipeline" ->
                           IF jump_limit_reached(response_eval.jumps,
                                                 settings.response_jump_limit)
                           THEN response_eval' =
                                    [response_eval EXCEPT !.index = i + 1,
                                                          !.skipped = @ + 1]
                           ELSE response_eval' =
                                    [response_eval EXCEPT !.pipeline = action.pipeline,
                                                          !.index = 1,
                                                          !.jumps = @ + 1]
    /\ UNCHANGED <<rule, matching, settings, loaded, deserialized, not_cfg>>

ResponseNext ==
    \/ \E pipelines \in PipelineSets, id \in PipelineIds : BeginResponsePhase(pipelines, id)
    \/ ResponseStep

(***************************************************************************)
(* load_config, lines 276-329 of src/src/config.rs.  A text is a sequence  *)
(* of pieces: Net stands for the text of one network in CIDR notation      *)
(* ("10.0.0.0/8"), Junk for any other text without comma or white space,   *)
(* Comma and Space for themselves.                                         *)
(***************************************************************************)
Net == "N"
Junk == "X"
Comma == ","
Space == " "

\* str::split(','): the parts between the commas, empty ones included
RECURSIVE split_from(_, _, _)
split_from(text, i, part) ==
    IF i > Len(text) THEN <<part>>
    ELSE IF text[i] = Comma THEN <<part>> \o split_from(text, i + 1, << >>)
    ELSE split_from(text, i + 1, Append(part, text[i]))
split(text) == split_from(text, 1, << >>)

\* str::trim(): leading and trailing white space removed
RECURSIVE trim_start(_)
trim_start(text) ==
    IF text # << >> /\ Head(text) = Space THEN trim_start(Tail(text)) ELSE text
RECURSIVE trim_end(_)
trim_end(text) ==
    IF text # << >> /\ text[Len(text)] = Space
    THEN trim_end(SubSeq(text, 1, Len(text) - 1))
    ELSE text
trim(text) == trim_end(trim_start(text))

\* str::parse::<IpNet>() is Ok: the text is that of one network and nothing else
parse_ip_net(text) == text = <<Net>>

\* for part in cidr.split(',') { let s = part.trim(); if !s.is_empty() { s.parse()? } }
parse_cidr_parts(cidr) ==
    \A i \in 1..Len(split(cidr)) :
        LET s == trim(split(cidr)[i]) IN s # << >> => parse_ip_net(s)
\* the check that load_config applies to a matcher's cidr: Ok or Err
parse_cidr_of(kind, cidr) ==
    IF kind \in {"response_upstream_ip", "response_answer_ip"}
    THEN parse_cidr_parts(cidr)
    ELSE parse_ip_net(cidr)

ClientIp(cidr) == [type |-> "client_ip", cidr |-> cidr]
RequestDomainSuffix(value) == [type |-> "request_domain_suffix", cidr |-> value]
ResponseUpstreamIp(cidr) == [type |-> "response_upstream_ip", cidr |-> cidr]
ResponseAnswerIp(cidr) == [type |-> "response_answer_ip", cidr |-> cidr]
\* a matcher of another kind, which load_config does not look at
OtherMatcher == [type |-> "any", cidr |-> << >>]

\* the matchers of a list: the one given, after a matcher of another kind
MatchersOf(field, Make(_)) ==
    IF field = Absent THEN <<OtherMatcher>> ELSE <<OtherMatcher, Make(field[1])>>
\* A PipelineConfig as serde_json deserializes it: a pipeline whose rule holds
\* the client_ip matcher, a pipeline whose rule holds the response matchers, and
\* a selector.
PipelineConfig(client, suffix, upstream, answer, selector) ==
    [pipelines |->
         << [rules |-> << [matchers |-> MatchersOf(client, ClientIp),
                           response_matchers |-> << >>] >>],
            [rules |-> << [matchers |-> << >>,
                           response_matchers |->
                               MatchersOf(suffix, RequestDomainSuffix)
                                   \o MatchersOf(upstream, ResponseUpstreamIp)
                                   \o MatchersOf(answer, ResponseAnswerIp)] >>] >>,
     pipeline_select |-> << [matchers |-> MatchersOf(selector, ClientIp)] >>]

CidrTexts ==
    { <<Net>>, <<Net, Comma, Net>>, <<Net, Comma, Space, Net>>, <<Net, Comma>>, << >>,
      <<Junk>>, <<Net, Comma, Junk>>, <<Net, Space, Net>> }
CidrFields == { Absent } \cup { Given(text) : text \in CidrTexts }
SuffixFields == { Absent, Given(<< >>), Given(<<Junk>>) }
NoConfig == PipelineConfig(Absent, Absent, Absent, Absent, Absent)
\* the file at `path`: unreadable, not the JSON of a PipelineConfig, or one
ConfigFile(kind, cfg) == [kind |-> kind, cfg |-> cfg]

\* the checks of lines 287-318 on one rule, and of 320-326 on one selector
rule_checked(r) ==
    /\ \A i \in 1..Len(r.matchers) :
           r.matchers[i].type = "client_ip"
               => parse_cidr_of("client_ip", r.matchers[i].cidr)
    /\ \A i \in 1..Len(r.response_matchers) :
           LET matcher == r.response_matchers[i]
           IN /\ matcher.type = "request_domain_suffix" => matcher.cidr # << >>
              /\ matcher.type = "response_upstream_ip"
                     => parse_cidr_of("response_upstream_ip", matcher.cidr)
              /\ matcher.type = "response_answer_ip"
                     => parse_cidr_of("response_answer_ip", matcher.cidr)
selector_checked(sel) ==
    \A i \in 1..Len(sel.matchers) :
        sel.matchers[i].type = "client_ip"
            => parse_cidr_of("client_ip", sel.matchers[i].cidr)
\* pub fn load_config(path: &Path) -> Result<PipelineConfig>
load_config(file) ==
    IF /\ file.kind = "json"
       /\ \A p \in 1..Len(file.cfg.pipelines) :
              \A i \in 1..Len(file.cfg.pipelines[p].rules) :
                  rule_checked(file.cfg.pipelines[p].rules[i])
       /\ \A i \in 1..Len(file.cfg.pipeline_select) :
              selector_checked(file.cfg.pipeline_select[i])
    THEN [ok |-> TRUE, cfg |-> file.cfg]
    ELSE [ok |-> FALSE, cfg |-> NoConfig]

NoLoaded == [called |-> FALSE, file |-> ConfigFile("unreadable", NoConfig),
             result |-> [ok |-> FALSE, cfg |-> NoConfig]]

\* load_config is called on a file.
LoadConfig(file) ==
    /\ loaded' = [called |-> TRUE, file |-> file, result |-> load_config(file)]
    /\ UNCHANGED <<rule, matching, settings, response_eval, deserialized, not_cfg>>

\* one call is explored
LoadNext ==
    \/ /\ ~loaded.called
       /\ \E kind \in {"unreadable", "malformed"} : LoadConfig(ConfigFile(kind, NoConfig))
    \/ /\ ~loaded.called
       /\ \E client \in CidrFields, suffix \in SuffixFields, upstream \in CidrFields,
             answer \in CidrFields, selector \in CidrFields :
              LoadConfig(ConfigFile("json",
                                    PipelineConfig(client, suffix, upstream, answer,
                                                   selector)))

(***************************************************************************)
(* Deserialization of a PipelineConfig by serde: the #[serde(default)]     *)
(* attributes of GlobalSettings (lines 23-67), Default for GlobalSettings  *)
(* (68-87), Rule (102-122) and the default functions (429-479) of          *)
(* src/src/config.rs.  A JSON object is a record of fields, each Absent or *)
(* Given.                                                                  *)
(***************************************************************************)
default_flow_control_initial_permits == 500
default_flow_control_min_permits == 100
default_flow_control_max_permits == 800
default_flow_control_latency_threshold_ms == 100
default_flow_control_adjustment_interval_secs == 5

\* #[serde(default = "f")]: the value given, or f() when the field is absent
or_default_only(field, default) == default
or_default(field, default) == IF field = Absent THEN default ELSE field[1]

\* impl Default for GlobalSettings
GlobalSettingsDefault ==
    [response_jump_limit |-> default_response_jump_limit,
     flow_control_initial_permits |-> default_flow_control_initial_permits,
     flow_control_min_permits |-> default_flow_control_min_permits,
     flow_control_max_permits |-> default_flow_control_max_permits,
     flow_control_latency_threshold_ms |-> default_flow_control_latency_threshold_ms,
     flow_control_adjustment_interval_secs |->
         default_flow_control_adjustment_interval_secs]
\* #[serde(default)] pub settings: GlobalSettings, and the fields of the struct
settings_from_value(field) ==
    IF field = Absent THEN GlobalSettingsDefault
    ELSE LET object == field[1]
         IN [response_jump_limit |->
                 GlobalSettings(object.response_jump_limit).response_jump_limit,
             flow_control_initial_permits |->
                 or_default(object.flow_control_initial_permits,
                            default_flow_control_initial_permits),
             flow_control_min_permits |->
                 or_default(object.flow_control_min_permits,
                            default_flow_control_min_permits),
             flow_control_max_permits |->
                 or_default(object.flow_control_max_permits,
                            default_flow_control_max_permits),
             flow_control_latency_threshold_ms |->
                 or_default(object.flow_control_latency_threshold_ms,
                            default_flow_control_latency_threshold_ms),
             flow_control_adjustment_interval_secs |->
                 or_default(object.flow_control_adjustment_interval_secs,
                            default_flow_control_adjustment_interval_secs)]
\* the operator of a rule: its text deserialized, the default when absent
operator_from_value(field) ==
    IF field = Absent THEN match_operator(Omitted) ELSE match_operator(field[1])
\* the fields of Rule that carry a default
rule_from_value(object) ==
    [matcher_operator |-> operator_from_value(object.matcher_operator),
     response_matcher_operator |-> operator_from_value(object.response_matcher_operator),
     response_actions_on_match |-> or_default(object.response_actions_on_match, << >>),
     response_actions_on_miss |-> or_default(object.response_actions_on_miss, << >>)]
\* serde_json::from_value::<PipelineConfig>, for a configuration of one
\* pipeline with one rule: Err when an operator's name is unknown
from_value(json) ==
    LET r == rule_from_value(json.rule)
    IN IF Undeserializable \in {r.matcher_operator, r.response_matcher_operator}
       THEN [ok |-> FALSE, settings |-> GlobalSettingsDefault, rule |-> r]
       ELSE [ok |-> TRUE, settings |-> settings_from_value(json.settings), rule |-> r]

\* the JSON values explored: the settings of the tests, each given or not
SettingsObjects ==
    [response_jump_limit : { Absent, Given(3) },
     flow_control_initial_permits : { Absent, Given(200) },
     flow_control_min_permits : { Absent, Given(50) },
     flow_control_max_permits : { Absent, Given(400) },
     flow_control_latency_threshold_ms : { Absent, Given(150) },
     flow_control_adjustment_interval_secs : { Absent, Given(10) }]
SettingsFields == { Absent } \cup { Given(object) : object \in SettingsObjects }
OperatorFields == { Absent, Given("or"), Given("and-not"), Given("nand") }
ActionsFields == { Absent, Given(<< >>), Given(<<Log, Allow>>) }
RuleObjects ==
    [matcher_operator : OperatorFields, response_matcher_operator : OperatorFields,
     response_actions_on_match : ActionsFields, response_actions_on_miss : ActionsFields]
NoJson ==
    [settings |-> Absent,
     rule |-> [matcher_operator |-> Absent, response_matcher_operator |-> Absent,
               response_actions_on_match |-> Absent, response_actions_on_miss |-> Absent]]
NoDeserialized == [called |-> FALSE, json |-> NoJson, result |-> from_value(NoJson)]

\* A JSON value is deserialized.
FromValue(json) ==
    /\ deserialized' = [called |-> TRUE, json |-> json, result |-> from_value(json)]
    /\ UNCHANGED <<rule, matching, settings, response_eval, loaded, not_cfg>>

\* one call is explored
DeserializeNext ==
    /\ ~deserialized.called
    /\ \E s \in SettingsFields, r \in RuleObjects : FromValue([settings |-> s, rule |-> r])

(***************************************************************************)
(* register_cdn_relations_from_message, src/src/prefetch.rs lines 295-366, *)
(* followed one iteration of its 'walk loop at a time: traversal.enqueued  *)
(* is the history of the names pushed onto the queue, traversal.polls the  *)
(* number of pop_front calls that returned a node.                         *)
(***************************************************************************)
NoWalk ==
    [pc |-> "idle", pipeline_id |-> "-", upstream |-> "-", origin |-> << >>,
     origin_norm |-> << >>, answers |-> << >>, graph |-> << >>, queue |-> << >>,
     seen |-> {}, related |-> << >>, depth |-> 0, next_candidates |-> << >>, i |-> 1,
     enqueued |-> << >>, polls |-> 0]

\* lines 302-325: the graph is built and the origin is queued
WalkBegin(pipeline_id, upstream, origin, answers) ==
    /\ traversal.pc = "idle"
    /\ LET origin_norm == normalize_domain_str(origin)
           called == [NoWalk EXCEPT !.pipeline_id = pipeline_id, !.upstream = upstream,
                                    !.origin = origin, !.origin_norm = origin_norm,
                                    !.answers = answers]
       IN traversal' =
            IF ~config.enabled \/ ~config.cdn_prefetch_enabled
            THEN [called EXCEPT !.pc = "done"]
            ELSE [called EXCEPT !.pc = "poll",
                                !.graph = cname_graph(cname_records(answers)),
                                !.queue = <<[name |-> origin_norm, depth |-> 0]>>,
                                !.seen = {origin_norm},
                                !.enqueued = <<origin_norm>>]
    /\ UNCHANGED <<looking, snapshot, pass, not_step>>

\* lines 327-339: `while let Some((current, depth)) = queue.pop_front()`, the
\* test of the depth and the candidates of the node
WalkPoll ==
    /\ traversal.pc = "poll"
    /\ traversal' =
          IF Len(traversal.queue) = 0 THEN [traversal EXCEPT !.pc = "store"]
          ELSE LET current == Head(traversal.queue)
                   popped == [traversal EXCEPT !.queue = Tail(@), !.polls = @ + 1]
               IN IF chain_limit_reached(current.depth)
                         \/ current.name \notin DOMAIN traversal.graph
                  THEN popped
                  ELSE [popped EXCEPT !.pc = "visit", !.depth = current.depth,
                                      !.next_candidates = traversal.graph[current.name],
                                      !.i = 1]
    /\ UNCHANGED <<looking, snapshot, pass, not_step>>

\* lines 341-354: one iteration of `for next in next_candidates`
WalkVisit ==
    /\ traversal.pc = "visit"
    /\ traversal' =
          IF traversal.i > Len(traversal.next_candidates)
          THEN [traversal EXCEPT !.pc = "poll"]
          ELSE LET next == traversal.next_candidates[traversal.i]
                   related_domains == traversal.related \o <<next>>
               IN IF next = traversal.origin_norm \/ ~seen_insert(traversal.seen, next)
                  THEN [traversal EXCEPT !.i = @ + 1]
                  ELSE IF Len(related_domains) >= CNAME_RELATION_LIMIT
                  THEN [traversal EXCEPT !.seen = @ \cup {next},
                                         !.related = related_domains, !.pc = "store"]
                  ELSE [traversal EXCEPT !.seen = @ \cup {next},
                                         !.related = related_domains,
                                         !.queue = @ \o <<[name |-> next,
                                                           depth |-> traversal.depth + 1]>>,
                                         !.enqueued = @ \o <<next>>,
                                         !.i = @ + 1]
    /\ UNCHANGED <<looking, snapshot, pass, not_step>>

\* lines 357-365: the relation is dropped when empty and stored otherwise
WalkStore ==
    /\ traversal.pc = "store"
    /\ traversal' = [traversal EXCEPT !.pc = "done"]
    /\ LET key == cdn_relation_key(traversal.pipeline_id, traversal.upstream,
                                   traversal.origin_norm)
       IN cdn_relations' = IF Len(traversal.related) = 0
                           THEN map_remove(cdn_relations, key)
                           ELSE map_insert(cdn_relations, key, traversal.related)
    /\ UNCHANGED <<related, looking, snapshot, pass, clock, cache, ca_vars, udp_vars,
                   tcp_vars, pq_vars, pf_vars, mgr_vars, cfg_vars>>

WalkStep == WalkPoll \/ WalkVisit \/ WalkStore

\* The responses walked: those registered, and a cycle that does not pass
\* through the origin (a -> x -> y -> x), a cycle of two through the origin,
\* and an origin that names itself.
WalkAnswers ==
    { response.answers : response \in { r \in RegResponses : r.parses } }
    \cup { << Record(<<97, 46>>, TypeCNAME, <<120, 46>>),
              Record(<<120, 46>>, TypeCNAME, <<121, 46>>),
              Record(<<121, 46>>, TypeCNAME, <<120, 46>>) >>,
           << Record(<<97, 46>>, TypeCNAME, <<98, 46>>),
              Record(<<98, 46>>, TypeCNAME, <<97, 46>>) >>,
           << Record(<<97, 46>>, TypeCNAME, <<65, 46>>),
              Record(<<97, 46>>, TypeCNAME, <<98, 46>>),
              Record(<<98, 46>>, TypeCNAME, <<98, 46>>) >> }

WalkNext ==
    \/ /\ traversal.pc = "idle"
       /\ \E origin \in RegOrigins, answers \in WalkAnswers :
              WalkBegin("p1", "8.8.8.8:53", origin, answers)
    \/ WalkPoll
    \/ WalkVisit
    \/ WalkStore

(***************************************************************************)
(* lookup_cdn_relations and cdn_relation_stats, lines 369-399, called by   *)
(* concurrent threads: each fetch_add, each load and the read of the cache *)
(* is a step of its own.                                                   *)
(***************************************************************************)
IdleLookup == [pc |-> "idle", key |-> << >>]
NoLooking == [t \in Threads |-> IdleLookup]
NoSnapshot == [pc |-> "idle", returned |-> FALSE, lookups |-> 0, hits |-> 0]

\* lines 375-376: the key is hashed and the lookup is counted
LookupBegin(t, pipeline_id, upstream, primary) ==
    /\ looking[t].pc = "idle"
    /\ cdn_relation_lookups < MaxLookups
    /\ looking' = [looking EXCEPT ![t] =
                      [pc |-> "counted",
                       key |-> cdn_relation_key(pipeline_id, upstream, primary)]]
    /\ cdn_relation_lookups' = cdn_relation_lookups + 1
    /\ UNCHANGED <<cdn_relation_hits, lookup_ops, lookup_found, registration, hot_vars,
                   pf_vars, rel_vars, traversal, snapshot, pass, not_mgr_step>>

\* line 377: self.cdn_relations.get(&key)
LookupGet(t) ==
    /\ looking[t].pc = "counted"
    /\ looking' = [looking EXCEPT ![t].pc =
                      IF looking[t].key \in DOMAIN cdn_relations THEN "found" ELSE "idle"]
    /\ UNCHANGED <<traversal, snapshot, pass, not_step>>

\* line 378: the hit is counted, and the value returned
LookupHit(t) ==
    /\ looking[t].pc = "found"
    /\ looking' = [looking EXCEPT ![t] = IdleLookup]
    /\ cdn_relation_hits' = cdn_relation_hits + 1
    /\ UNCHANGED <<cdn_relation_lookups, lookup_ops, lookup_found, registration, hot_vars,
                   pf_vars, rel_vars, traversal, snapshot, pass, not_mgr_step>>

\* line 386: let lookups = self.cdn_relation_lookups.load(Ordering::Relaxed);
StatsLoadLookups ==
    /\ snapshot.pc = "idle"
    /\ snapshot' = [pc |-> "lookups", returned |-> FALSE,
                    lookups |-> cdn_relation_lookups, hits |-> 0]
    /\ UNCHANGED <<traversal, looking, pass, not_step>>

\* lines 387-398: hits is loaded and the CdnRelationStats is returned
StatsLoadHits ==
    /\ snapshot.pc = "lookups"
    /\ snapshot' = [snapshot EXCEPT !.pc = "idle", !.returned = TRUE,
                                    !.hits = cdn_relation_hits]
    /\ UNCHANGED <<traversal, looking, pass, not_step>>

\* Two threads look relations up, of "a" (registered) and of "b" (not), while
\* a third reads the statistics.
StatsNext ==
    \/ \E t \in Threads, primary \in { <<97>>, <<98>> } :
           LookupBegin(t, "p1", "8.8.8.8:53", primary)
    \/ \E t \in Threads : LookupGet(t)
    \/ \E t \in Threads : LookupHit(t)
    \/ StatsLoadLookups
    \/ StatsLoadHits
    \/ RegisterCdnRelations("p1", "8.8.8.8:53", <<97>>, ChainOfTwo)

(***************************************************************************)
(* run_udp_worker, src/src/main.rs lines 235-318: the outer loop waits for *)
(* the socket to be readable and then runs one batch, a pass; pass.start   *)
(* is the number of datagrams received when the pass began.                *)
(***************************************************************************)
MaxPasses == 2
MAX_BATCH == 32
NoPass == [pc |-> "waiting", batch_count |-> 0, passes |-> 0, start |-> 0, last |-> "-"]

\* line 243: while batch_count < MAX_BATCH
batch_open_late(batch_count) == batch_count <= MAX_BATCH
batch_open(batch_count) == batch_count < MAX_BATCH

\* line 237: socket.readable().await?; lines 240-241 on success
WorkerReadable(ok) ==
    /\ pass.pc = "waiting"
    /\ pass.passes < MaxPasses
    /\ pass' = IF ok
               THEN [pc |-> "batch", batch_count |-> 0, passes |-> pass.passes + 1,
                     start |-> received, last |-> "-"]
               ELSE [pass EXCEPT !.pc = "returned"]
    /\ UNCHANGED <<traversal, looking, snapshot, not_step>>

\* lines 244-318: try_recv_buf_from yields a datagram, which is counted and
\* handled
WorkerRecvPacket(packet, peer) ==
    /\ pass.pc = "batch"
    /\ batch_open(pass.batch_count)
    /\ pass' = [pass EXCEPT !.batch_count = @ + 1, !.last = "Packet"]
    /\ HandleDatagram(packet, peer)
    /\ UNCHANGED <<traversal, looking, snapshot, clock, cache, ca_vars, tcp_vars, pq_vars,
                   pf_vars, rel_vars, mgr_vars, cfg_vars>>

\* lines 256-260 and 266-267: try_recv_buf_from fails, with WouldBlock
\* (RecvResult::NoData) or otherwise (RecvResult::Error); both break
WorkerRecvFails(recv_result) ==
    /\ pass.pc = "batch"
    /\ batch_open(pass.batch_count)
    /\ pass' = [pass EXCEPT !.pc = "waiting", !.last = recv_result]
    /\ UNCHANGED <<traversal, looking, snapshot, not_step>>

\* line 243: the condition of the while is false
WorkerBatchEnds ==
    /\ pass.pc = "batch"
    /\ ~batch_open(pass.batch_count)
    /\ pass' = [pass EXCEPT !.pc = "waiting", !.last = "Full"]
    /\ UNCHANGED <<traversal, looking, snapshot, not_step>>

\* The datagrams a worker of an empty cache receives: a query that needs the
\* slow path and a datagram shorter than a DNS header.
WorkerPackets == { MkQuery(<<18, 52>>, Question(97)), <<18, 52, 1>> }

WorkerNext ==
    \/ \E ok \in BOOLEAN : WorkerReadable(ok)
    \/ \E packet \in WorkerPackets : WorkerRecvPacket(packet, "10.0.0.1:4000")
    \/ \E recv_result \in {"NoData", "Error"} : WorkerRecvFails(recv_result)
    \/ WorkerBatchEnds

StepIdle ==
    /\ traversal = NoWalk
    /\ looking = NoLooking
    /\ snapshot = NoSnapshot
    /\ pass = NoPass

CfgIdle ==
    /\ rule = NoRule
    /\ matching = NoMatching
    /\ settings = GlobalSettings(Absent)
    /\ response_eval = NoEval
    /\ loaded = NoLoaded
    /\ deserialized = NoDeserialized

\* try_prepare_job called by concurrent threads
InitPrefetch == clock = 0 /\ StepIdle /\ CacheEmpty /\ CaIdle /\ PqIdle /\ RelIdle /\ CfgIdle /\ MgrIdle /\ UdpIdle /\ TcpIdle /\ PfInit
SpecPrefetch == InitPrefetch /\ [][PfNext]_vars

(***************************************************************************)
(* try_prepare_job as one call, lines 237-259, that nothing overlaps.      *)
(***************************************************************************)
try_prepare_job(job) ==
    LET now == clock
        hash == job_hash(job)
        last == map_get(last_prefetch, hash)
        call == [job |-> job, now |-> now, result |-> "None",
                 pre_last |-> last, pre_avail |-> concurrency]
    IN  /\ IF ~config.enabled
           THEN /\ ret' = call
                /\ UNCHANGED <<last_prefetch, concurrency, permits, grants>>
           ELSE IF last # NoInstant /\ interval_blocks(now, last, config)
           THEN /\ ret' = call
                /\ UNCHANGED <<last_prefetch, concurrency, permits, grants>>
           ELSE IF concurrency > 0
           THEN /\ last_prefetch' = map_insert(last_prefetch, hash, now)
                /\ concurrency' = concurrency - 1
                /\ permits' = permits + 1
                /\ ret' = [call EXCEPT !.result = "permit"]
                /\ grants' = Granted(job, now)
           ELSE /\ last_prefetch' = map_remove(map_insert(last_prefetch, hash, now), hash)
                /\ ret' = call
                /\ UNCHANGED <<concurrency, permits, grants>>
        /\ UNCHANGED <<config, calls, not_pf>>

PfSeqNext ==
    \/ Tick
    \/ DropPermit
    \/ \E job \in PrefetchJobs : try_prepare_job(job)

\* try_prepare_job called by one caller at a time
SpecPrefetchSeq == InitPrefetch /\ [][PfSeqNext]_vars

\* a UDP worker over a cache holding any cacheable response
InitUdp ==
    clock = 0 /\ StepIdle /\ cache \in UdpCaches /\ CaIdle /\ PqIdle /\ RelIdle /\ CfgIdle /\ MgrIdle /\ UdpInit /\ TcpIdle /\ PfIdle
SpecUdp == InitUdp /\ [][UdpNext]_vars

\* concurrent requests of the slow path over an empty cache
InitCache == clock = 0 /\ StepIdle /\ CacheEmpty /\ CaIdle /\ PqIdle /\ RelIdle /\ CfgIdle /\ MgrIdle /\ UdpIdle /\ TcpIdle /\ PfIdle
SpecCache == InitCache /\ [][CaNext]_vars

\* the same, where a follower whose InFlight is resolved is eventually woken
FairSpecCache ==
    /\ InitCache
    /\ [][CaNext]_vars
    /\ \A r \in Requesters : WF_vars(FollowerWake(r))

\* one TCP connection
InitTcp == clock = 0 /\ StepIdle /\ CacheEmpty /\ CaIdle /\ PqIdle /\ RelIdle /\ CfgIdle /\ MgrIdle /\ UdpIdle /\ TcpNew /\ PfIdle
SpecTcp == InitTcp /\ [][TcpNext]_vars

\* the quick parsers applied to one packet, a query or a response
InitQuick ==
    /\ clock = 0 /\ StepIdle /\ CacheEmpty /\ CaIdle /\ RelIdle /\ CfgIdle /\ MgrIdle /\ UdpIdle /\ TcpIdle /\ PfIdle
    /\ wire \in QuickPackets \cup ResponsePackets
    /\ scratch \in ScratchLens
    /\ parsed = NotParsed
    /\ quick_query = NoQuery
    /\ quick_response = NoResponse
SpecQuick == InitQuick /\ [][PqNext]_vars

\* the quick parsers applied to one packet cut short, with any scratch buffer
InitCut ==
    /\ clock = 0 /\ StepIdle /\ CacheEmpty /\ CaIdle /\ RelIdle /\ CfgIdle /\ MgrIdle /\ UdpIdle /\ TcpIdle /\ PfIdle
    /\ wire \in CutPackets
    /\ scratch \in ScratchLens
    /\ parsed = NotParsed
    /\ quick_query = NoQuery
    /\ quick_response = NoResponse
SpecCut == InitCut /\ [][PqNext]_vars

\* related_jobs over the relations registered so far
InitRelated ==
    /\ clock = 0 /\ StepIdle /\ CacheEmpty /\ CaIdle /\ PqIdle /\ RelIdle /\ CfgIdle /\ MgrIdle /\ UdpIdle /\ TcpIdle
    /\ \E cfg \in RelConfigs : PfNew(cfg)
SpecRelated == InitRelated /\ [][RelNext]_vars

\* registrations of responses, one after the other, and expiries
InitRegister ==
    /\ clock = 0 /\ StepIdle /\ CacheEmpty /\ CaIdle /\ PqIdle /\ RelIdle /\ CfgIdle /\ MgrIdle /\ UdpIdle /\ TcpIdle
    /\ \E cfg \in RegConfigs : PfNew(cfg)
SpecRegister == InitRegister /\ [][RegNext]_vars

\* the walk of one registration, one iteration at a time
InitWalk ==
    /\ clock = 0 /\ StepIdle /\ CacheEmpty /\ CaIdle /\ PqIdle /\ RelIdle /\ CfgIdle /\ MgrIdle /\ UdpIdle /\ TcpIdle
    /\ \E cfg \in RegConfigs : PfNew(cfg)
SpecWalk == InitWalk /\ [][WalkNext]_vars
\* the thread that registers keeps running
FairSpecWalk == SpecWalk /\ WF_vars(WalkStep)

\* lookups by two threads while the statistics are read
InitStats == clock = 0 /\ StepIdle /\ CacheEmpty /\ CaIdle /\ PqIdle /\ RelIdle /\ CfgIdle /\ MgrIdle /\ UdpIdle /\ TcpIdle /\ PfIdle
SpecStats == InitStats /\ [][StatsNext]_vars

\* a UDP worker over an empty cache, pass after pass
InitWorker == clock = 0 /\ StepIdle /\ CacheEmpty /\ CaIdle /\ PqIdle /\ RelIdle /\ CfgIdle /\ MgrIdle /\ UdpIdle /\ TcpIdle /\ PfIdle
SpecWorker == InitWorker /\ [][WorkerNext]_vars

\* record_access called by concurrent threads, over any placement of the
\* fingerprints in the shards of hot_domains
InitAccess ==
    /\ clock = 0 /\ StepIdle /\ CacheEmpty /\ CaIdle /\ PqIdle /\ RelIdle /\ CfgIdle /\ UdpIdle /\ TcpIdle
    /\ \E cfg \in AccessConfigs : PfNew(cfg)
    /\ \E sharding \in Shardings : MgrNew(sharding)
SpecAccess == InitAccess /\ [][AccessNext]_vars
\* The manager used by one caller at a time: record_access, the registration of
\* a response, related_jobs and try_prepare_job, each call made when the one
\* before it has returned.
MgrConfigs ==
    [enabled : BOOLEAN, hot_threshold : {1}, concurrency : {5}, min_interval : {2},
     ipv6_on_ipv4_enabled : {TRUE}, cdn_prefetch_enabled : BOOLEAN]
MgrResponses == { Unparsable, Parsed(<< >>), Parsed(CnameChain(2)) }
MgrNext ==
    \/ \E call \in Accesses : AccessBegin(1, call.hash, call.entry)
    \/ AccessSteps(1)
    \/ /\ access[1].pc = "idle"
       /\ \E response \in MgrResponses :
              RegisterFromResponse("p1", "8.8.8.8:53", <<97>>, response)
    \/ /\ access[1].pc = "idle"
       /\ RelatedJobs("p1", <<97>>, TypeA, "8.8.8.8:53")
    \/ /\ access[1].pc = "idle"
       /\ \E job \in PrefetchJobs : try_prepare_job(job)

\* the operations of the manager called one after the other
InitManager ==
    /\ clock = 0 /\ StepIdle /\ CacheEmpty /\ CaIdle /\ PqIdle /\ RelIdle /\ CfgIdle /\ MgrIdle /\ UdpIdle /\ TcpIdle
    /\ \E cfg \in MgrConfigs : PfNew(cfg)
SpecManager == InitManager /\ [][MgrNext]_vars
\* record_access and try_prepare_job on the same name: the jobs for "c", the
\* related domain whose fingerprint record_access computes itself
HotJobs ==
    { [pipeline_id |-> "p1", qname |-> <<99>>, qtype |-> TypeA, upstream |-> upstream] :
        upstream \in { "8.8.8.8:53", "1.1.1.1:53" } }
HotConfigs ==
    [enabled : {TRUE}, hot_threshold : {1}, concurrency : {5}, min_interval : {2},
     ipv6_on_ipv4_enabled : {TRUE}, cdn_prefetch_enabled : {TRUE}]
HotNext ==
    \/ Tick
    \/ RegisterCdnRelations("p1", "8.8.8.8:53", <<97>>, ChainOfTwo)
    \/ \E call \in Accesses : AccessBegin(1, call.hash, call.entry)
    \/ AccessSteps(1)
    \/ /\ access[1].pc = "idle"
       /\ \E job \in HotJobs : try_prepare_job(job)
InitHot ==
    /\ clock = 0 /\ StepIdle /\ CacheEmpty /\ CaIdle /\ PqIdle /\ RelIdle /\ CfgIdle /\ MgrIdle /\ UdpIdle /\ TcpIdle
    /\ config \in HotConfigs
    /\ last_prefetch = << >>
    /\ concurrency = concurrency_limit(config)
    /\ permits = 0
    /\ calls = [t \in Threads |-> IdleCall]
    /\ ret = NoCall
    /\ grants = [j \in HotJobs |-> NoInstant]
SpecHot == InitHot /\ [][HotNext]_vars

\* the same, where a thread inside record_access that can take a step does
FairSpecAccess ==
    /\ InitAccess
    /\ [][AccessNext]_vars
    /\ \A t \in Threads : WF_vars(AccessSteps(t))

\* the two listeners, one at a time: a UDP worker with one flow permit over an
\* empty cache, or one TCP connection
InitListeners ==
    /\ clock = 0 /\ StepIdle /\ CacheEmpty /\ CaIdle /\ PqIdle /\ RelIdle /\ CfgIdle /\ MgrIdle /\ PfIdle
    /\ \/ UdpNew(1) /\ TcpIdle
       \/ UdpIdle /\ TcpNew
ListenersNext ==
    \/ TcpIdle /\ UdpNext
    \/ TcpNext
SpecListeners == InitListeners /\ [][ListenersNext]_vars

\* a rule is deserialized and its matchers evaluated on one request
InitRule ==
    /\ clock = 0 /\ StepIdle /\ CacheEmpty /\ CaIdle /\ PqIdle /\ RelIdle /\ MgrIdle /\ UdpIdle /\ TcpIdle /\ PfIdle
    /\ CfgIdle
SpecRule == InitRule /\ [][RuleNext]_vars

\* load_config called on one file
InitLoad ==
    /\ clock = 0 /\ StepIdle /\ CacheEmpty /\ CaIdle /\ PqIdle /\ RelIdle /\ MgrIdle /\ UdpIdle /\ TcpIdle /\ PfIdle
    /\ CfgIdle
SpecLoad == InitLoad /\ [][LoadNext]_vars

\* one JSON value deserialized
InitDeserialize ==
    /\ clock = 0 /\ StepIdle /\ CacheEmpty /\ CaIdle /\ PqIdle /\ RelIdle /\ MgrIdle /\ UdpIdle /\ TcpIdle /\ PfIdle
    /\ CfgIdle
SpecDeserialize == InitDeserialize /\ [][DeserializeNext]_vars

\* the response-phase evaluation of one request, under any response_jump_limit
InitResponse ==
    /\ clock = 0 /\ StepIdle /\ CacheEmpty /\ CaIdle /\ PqIdle /\ RelIdle /\ MgrIdle /\ UdpIdle /\ TcpIdle /\ PfIdle
    /\ rule = NoRule
    /\ matching = NoMatching
    /\ settings \in { GlobalSettings(field) : field \in JumpLimitFields }
    /\ response_eval = NoEval
    /\ loaded = NoLoaded
    /\ deserialized = NoDeserialized
SpecResponse == InitResponse /\ [][ResponseNext]_vars
\* the same, where an evaluation that has begun goes on
FairSpecResponse == InitResponse /\ [][ResponseNext]_vars /\ WF_vars(ResponseStep)

(***************************************************************************)
(* Claims about try_prepare_job.                                           *)
(***************************************************************************)
\* C6: a try_prepare_job call that nothing overlaps returns a permit if and only
\* if prefetch is enabled, the job had no last-prefetch time or at least
\* min_interval has passed since it, and the semaphore had a free slot; and
\* when it returns a permit the job's last-prefetch time is the time of the call.
C6_PermitIff ==
    ret.result # "-" =>
        /\ (ret.result = "permit") <=>
              /\ config.enabled
              /\ \/ ret.pre_last = NoInstant
                 \/ ret.now - ret.pre_last >= config.min_interval
              /\ ret.pre_avail > 0
        /\ ret.result = "permit" =>
              /\ job_hash(ret.job) \in DOMAIN last_prefetch
              /\ last_prefetch[job_hash(ret.job)] = ret.now

\* C6 witness: a permit granted to a job exactly min_interval after its last one.
C6_Witness ==
    /\ ret.result = "permit"
    /\ ret.pre_last # NoInstant
    /\ ret.now - ret.pre_last = config.min_interval

\* C7: the permits handed out and not yet dropped never exceed the semaphore
\* size (the configured concurrency, 1 when configured as 0), and the free slots
\* are exactly the size minus the permits outstanding, so a dropped permit
\* frees one slot.
C7_PermitsWithinLimit ==
    LET size == IF config.concurrency = 0 THEN 1 ELSE config.concurrency
    IN  /\ permits <= size
        /\ concurrency = size - permits

\* C7 witness: configured with concurrency 0, both jobs have been granted a
\* permit (so the first permit was dropped and its slot taken again) and one
\* permit is outstanding.
C7_Witness ==
    /\ config.concurrency = 0
    /\ permits = 1
    /\ \A j \in PrefetchJobs : grants[j] # NoInstant

\* C8: two try_prepare_job calls for the same job that both return a permit
\* are at least min_interval apart, under every interleaving: a step that
\* grants a permit to a job granted one before does so for a call made at
\* least min_interval away from the earlier one.
C8_GrantsMinIntervalApart ==
    [][\A t \in Threads :
          (/\ calls[t].pc = "acquire"
           /\ calls'[t].pc = "idle"
           /\ permits' = permits + 1
           /\ grants[calls[t].job] # NoInstant)
          => \/ calls[t].now - grants[calls[t].job] >= config.min_interval
             \/ grants[calls[t].job] - calls[t].now >= config.min_interval]_vars

(***************************************************************************)
(* Claims about the UDP worker.                                            *)
(***************************************************************************)
\* C1: for a cache hit, the bytes handed to the socket (by the synchronous
\* send, and by the async send task spawned on WouldBlock) carry the request's
\* two TXID bytes first and the cached entry's bytes at every other index, and
\* the cached entry itself still holds the bytes the fast path returned.
C1_TxidPatchedOnCacheHit ==
    handled.tag = "CacheHit" =>
        LET entry == cache[fingerprint(handled.packet)].bytes
            patched(data) ==
                /\ Len(data) = Len(entry)
                /\ data[1] = handled.packet[1]
                /\ data[2] = handled.packet[2]
                /\ \A i \in 3..Len(entry) : data[i] = entry[i]
        IN  /\ entry = handled.bytes
            /\ patched(handled.sent)
            /\ \A task \in async_sends : task.id = handled.id => patched(task.data)

\* C1 witness: a cache hit whose send reported WouldBlock, with its async send
\* task spawned and the bytes sent differing from the cached ones in the TXID.
C1_Witness ==
    /\ handled.tag = "CacheHit"
    /\ handled.send = "WouldBlock"
    /\ handled.sent # handled.bytes
    /\ \E task \in async_sends : task.id = handled.id

\* C9: the slow-path tasks spawned by the UDP worker and still running never
\* exceed the flow-permit limit.
C9_SlowTasksWithinFlowPermits == slow_tasks <= flow.max_permits

\* C10: a step that handles a datagram with a Direct or CacheHit response whose
\* non-blocking send reports WouldBlock spawns an async send task with the
\* same bytes for the same peer.
C10_WouldBlockSpawnsAsyncSend ==
    [][(/\ received' = received + 1
        /\ handled'.tag \in {"Direct", "CacheHit"}
        /\ handled'.send = "WouldBlock")
       => \E task \in async_sends' \ async_sends :
             /\ task.peer = handled'.peer
             /\ task.data = handled'.sent]_vars

\* C10 witness: a Direct response whose send reported WouldBlock, with its
\* async send task waiting to run.
C10_Witness ==
    /\ handled.tag = "Direct"
    /\ handled.send = "WouldBlock"
    /\ \E task \in async_sends :
          task.id = handled.id /\ task.data = handled.sent /\ task.peer = handled.peer

(***************************************************************************)
(* Claims about the cache and the single-flight protocol.                  *)
(***************************************************************************)
\* C2: each fingerprint has at most one InFlight, an InFlight has exactly one
\* leader, and every requester that arrives while a leader's upstream call for
\* its fingerprint is in flight becomes a Follower of that leader's InFlight.
C2_OneInFlightPerFingerprint ==
    /\ \A a, b \in inflight : a.fp = b.fp => a = b
    /\ \A fp \in Fingerprints :
          Cardinality({r \in Requesters : reqs[r].pc = "leading" /\ reqs[r].fp = fp})
              = Cardinality({i \in inflight : i.fp = fp})
    /\ \A r \in Requesters :
          reqs[r].during # 0 =>
              /\ reqs[r].role = "Follower"
              /\ reqs[r].token = reqs[reqs[r].during].token
    /\ \A r \in Requesters :
          reqs[r].pc = "waiting" =>
              \/ [fp |-> reqs[r].fp, token |-> reqs[r].token] \in inflight
              \/ resolved[reqs[r].token] # Pending

\* C2 witness: one leader and two followers waiting on the same InFlight.
C2_Witness ==
    \E l \in Requesters :
        /\ reqs[l].pc = "leading"
        /\ \A r \in Requesters \ {l} :
              reqs[r].pc = "waiting" /\ reqs[r].token = reqs[l].token

\* C3: of the requesters that arrive while a leader's upstream call for their
\* fingerprint is in flight none sends an upstream query (the leader sent one),
\* each is eventually done once the leader is, and each observes the leader's
\* outcome: the same error, or the same bytes after its own TXID.
C3_SingleFlight ==
    /\ [](\A r \in Requesters :
            reqs[r].during # 0 =>
                LET l == reqs[r].during
                IN  /\ reqs[r].queries = 0
                    /\ reqs[l].queries = 1
                    /\ reqs[r].pc = "done" =>
                          /\ reqs[l].pc = "done"
                          /\ reqs[r].outcome.kind = reqs[l].outcome.kind
                          /\ SubSeq(reqs[r].outcome.bytes, 3, Len(reqs[r].outcome.bytes))
                               = SubSeq(reqs[l].outcome.bytes, 3, Len(reqs[l].outcome.bytes))
                          /\ reqs[r].outcome.kind = "Response" =>
                                SubSeq(reqs[r].outcome.bytes, 1, 2) = to_be_bytes(r))
    /\ \A r \in Requesters :
          (reqs[r].during # 0 /\ reqs[reqs[r].during].pc = "done")
              ~> (reqs[r].pc = "done")

\* C3 witness: three requests for one fingerprint, one leader and two that
\* arrived during its upstream call, all done with a response.
C3_Witness ==
    \E l \in Requesters :
        /\ reqs[l].pc = "done"
        /\ reqs[l].role = "Leader"
        /\ reqs[l].outcome.kind = "Response"
        /\ \A r \in Requesters \ {l} : reqs[r].pc = "done" /\ reqs[r].during = l

\* C4: a lookup step that returns a Hit does so for an entry whose expiry is
\* later than the time of the lookup, and reports a remaining_ttl no larger
\* than the one last reported for the same entry.
C4_NoHitAfterExpiry ==
    [][last_hit' # last_hit =>
          /\ last_hit'.entry.expiry > clock
          /\ (last_hit'.fp = last_hit.fp /\ last_hit'.entry = last_hit.entry) =>
                last_hit'.remaining_ttl <= last_hit.remaining_ttl]_vars

\* C4 witness: an entry hit twice, with remaining_ttl 2 and later 1.
C4_Witness ==
    /\ last_hit.entry # NoEntry
    /\ last_hit.first = 2
    /\ last_hit.remaining_ttl = 1

\* C5: every cached entry holds a response with rcode NOERROR or NXDOMAIN, and
\* an entry received over UDP has the TC bit clear.
C5_NoUncacheableEntries ==
    \A fp \in Fingerprints :
        cache[fp] # NoEntry =>
            /\ B(cache[fp].bytes, 3) % 16 \in {0, 3}
            /\ cache[fp].via = "udp" => (B(cache[fp].bytes, 2) \div 2) % 2 = 0

\* C5 witness: a leader was answered SERVFAIL, another a truncated UDP response
\* for the same fingerprint, and the fingerprint has no cached entry.
C5_Witness ==
    \E r, q \in Requesters :
        /\ reqs[r].pc = "done" /\ reqs[r].role = "Leader"
        /\ reqs[q].pc = "done" /\ reqs[q].role = "Leader"
        /\ reqs[r].fp = reqs[q].fp
        /\ reqs[r].outcome.kind = "Response" /\ B(reqs[r].outcome.bytes, 3) % 16 = 2
        /\ reqs[q].outcome.kind = "Response" /\ (B(reqs[q].outcome.bytes, 2) \div 2) % 2 = 1
        /\ cache[reqs[r].fp] = NoEntry

(***************************************************************************)
(* Claims about failed requests and the TCP connection.                    *)
(***************************************************************************)
\* C11: a request that fails produces no response bytes: a datagram whose fast
\* path fails is neither sent an answer nor given an async send task, a spawned
\* task whose handle_packet fails sends nothing, and a TCP connection closed
\* by a handle_packet error has written nothing for the failed frame.
C11_ErrorsSendNothing ==
    /\ handled.tag = "Err" =>
          /\ handled.sent = << >>
          /\ handled.send = "-"
          /\ \A task \in async_sends : task.id # handled.id
    /\ slow_done.result = "Err" => slow_done.sent = << >>
    /\ conn.why = "handle_packet" =>
          /\ conn.pc = "closed"
          /\ Len(written) % 2 = 0
          /\ \A i \in 1..Len(written) :
                written[i].kind = "resp" => written[i].resp.frame <= Len(handled_frames)

\* C11 witness: a TCP connection that served one frame and was then closed by
\* a handle_packet error.
C11_Witness ==
    /\ conn.why = "handle_packet"
    /\ Len(handled_frames) = 1
    /\ Len(written) = 2

C13_RejectsShortAndNoQuestion ==
    "query" \in parsed =>
        /\ Len(wire) < 12 => ~quick_query.ok
        /\ (Len(wire) >= 12 /\ B(wire, 4) = 0 /\ B(wire, 5) = 0) => ~quick_query.ok
C13_Witness ==
    /\ "query" \in parsed
    /\ Len(wire) >= 30
    /\ B(wire, 4) = 0 /\ B(wire, 5) = 0
    /\ SubSeq(wire, 13, 19) = Question(97)
    /\ ~quick_query.ok

\* C14: the lookup key of a query is case-insensitive and TXID-independent: for
\* two query packets that differ only in the TXID bytes and in the ASCII case of
\* qname label bytes, parse_quick returns the same qname (no ASCII uppercase
\* letter, labels joined by single dots, no trailing dot); and
\* calculate_cache_hash returns the same value for qnames that differ only in
\* ASCII case.
C14_KeyIgnoresCaseAndTxid ==
    /\ ("query" \in parsed /\ wire \in QuickPackets) =>
          /\ \A c \in 1..Len(quick_query.qname) : ~is_ascii_uppercase(quick_query.qname[c])
          /\ Len(quick_query.qname) > 0 =>
                quick_query.qname[Len(quick_query.qname)] # 46
                    \/ 46 \in { B(wire, i) : i \in label_offsets(wire, 12, QuickMaxJumps) }
          /\ \A other \in { q \in QuickPackets : Len(q) = Len(wire) } :
                (\A i \in 0..(Len(wire) - 1) :
                    \/ i \in {0, 1}
                    \/ B(wire, i) = B(other, i)
                    \/ /\ i \in label_offsets(wire, 12, QuickMaxJumps)
                       /\ to_ascii_lowercase(B(wire, i)) = to_ascii_lowercase(B(other, i)))
                => /\ parse_quick(other, scratch).ok = quick_query.ok
                   /\ parse_quick(other, scratch).qname = quick_query.qname
    /\ \A route \in Routes, qname \in RelQnames, other \in RelQnames, qtype \in {TypeA, TypeAAAA} :
          str_to_ascii_lowercase(qname) = str_to_ascii_lowercase(other)
              => calculate_cache_hash(route[1], qname, qtype)
                    = calculate_cache_hash(route[1], other, qtype)

\* C15: for every well-formed DNS query packet, and a scratch buffer large
\* enough for the name, parse_quick returns Some with tx_id, qtype and qclass
\* equal to those of a reference full parse of the first question, and with a
\* lower-cased qname equal to that of the reference: the text of the labels
\* joined by dots where no label needs an escape, and in every case a qname
\* that another name does not share.
C15_QuickParseEqualsFullParse ==
    ("query" \in parsed /\ well_formed_query(wire) /\ scratch >= 255) =>
        LET name == reference_labels(wire, 12, << >>)
        IN /\ quick_query.ok
           /\ quick_query.tx_id = from_be_bytes(B(wire, 0), B(wire, 1))
           /\ quick_query.qtype = from_be_bytes(B(wire, name.next), B(wire, name.next + 1))
           /\ quick_query.qclass = from_be_bytes(B(wire, name.next + 2), B(wire, name.next + 3))
           /\ (\A k \in 1..Len(name.labels) : plain_label(name.labels[k]))
                 => quick_query.qname = reference_text(name.labels)
           /\ \A other \in { q \in QuickPackets : Len(q) >= 12 /\ SubSeq(q, 1, 12) = SubSeq(wire, 1, 12) } :
                 (/\ well_formed_query(other)
                  /\ reference_name(reference_labels(other, 12, << >>).labels)
                        # reference_name(name.labels))
                 => parse_quick(other, scratch).qname # quick_query.qname

\* C16: parse_quick follows compression pointers in the qname with a jump
\* limit of 5: a qname that needs 5 or fewer pointer jumps, and is otherwise in
\* bounds, is parsed; a qname that needs more than 5 jumps, including any
\* pointer loop, makes parse_quick return None; so the name walk terminates on
\* every packet.
C16_JumpLimitFive ==
    ("query" \in parsed /\ Len(wire) >= 12 /\ (B(wire, 4) # 0 \/ B(wire, 5) # 0)) =>
        LET need == reference_jumps(wire, 12, {}, 0, 0)
        IN /\ (/\ need.bounds /\ ~need.loop /\ need.jumps <= 5
               /\ need.after + 4 <= Len(wire) /\ scratch >= 255)
                 => quick_query.ok
           /\ (need.bounds /\ (need.loop \/ need.jumps > 5)) => ~quick_query.ok
           /\ quick_query.steps <= QuickMaxJumps * (Len(wire) + 1)

\* C17: for a packet accepted by parse_quick, edns_present is false whenever
\* ancount or nscount is non-zero; when ancount = nscount = 0 and qdcount = 1,
\* edns_present is true if and only if one of the first arcount records of the
\* additional section, walked within the packet bounds, has type 41 (OPT).
C17_EdnsPresentIffOptRecord ==
    ("query" \in parsed /\ quick_query.ok) =>
        LET qd_count == from_be_bytes(B(wire, 4), B(wire, 5))
            an_count == from_be_bytes(B(wire, 6), B(wire, 7))
            ns_count == from_be_bytes(B(wire, 8), B(wire, 9))
            ar_count == from_be_bytes(B(wire, 10), B(wire, 11))
            additional == reference_records(wire, reference_jumps(wire, 12, {}, 0, 0).after + 4,
                                            ar_count)
        IN /\ (an_count # 0 \/ ns_count # 0) => ~quick_query.edns_present
           /\ (an_count = 0 /\ ns_count = 0 /\ qd_count = 1) =>
                 (quick_query.edns_present
                    <=> \E i \in 1..Len(additional) : additional[i].type = OPT)

\* C18: for every response packet that parse_response_quick accepts, min_ttl
\* equals the minimum of the 32-bit TTL fields of the ancount answer records,
\* and equals 0 when ancount = 0 (in which case the packet is accepted with
\* only the 12-byte header checked); rcode is the low 4 bits of byte 3 and
\* truncated is bit 1 of byte 2.
C18_MinTtlRcodeTruncated ==
    "response" \in parsed =>
        /\ (Len(wire) >= 12 /\ B(wire, 6) = 0 /\ B(wire, 7) = 0) =>
              quick_response.ok /\ quick_response.min_ttl = U32Zero
        /\ quick_response.ok =>
              LET qd_count == from_be_bytes(B(wire, 4), B(wire, 5))
                  an_count == from_be_bytes(B(wire, 6), B(wire, 7))
                  answers == reference_records(wire, reference_questions_end(wire, 12, qd_count),
                                               an_count)
              IN /\ quick_response.rcode = B(wire, 3) % 16
                 /\ quick_response.truncated = ((B(wire, 2) \div 2) % 2 = 1)
                 /\ an_count > 0 =>
                       /\ Len(answers) = an_count
                       /\ quick_response.min_ttl = reference_min_ttl(answers)

(***************************************************************************)
(* Claims about related_jobs.                                              *)
(***************************************************************************)
\* C19: related_jobs(pipeline, qname, qtype, upstream) contains exactly one AAAA
\* job, with the same pipeline, qname and upstream, if prefetch is enabled,
\* ipv6_on_ipv4_enabled is set and qtype is A; in every other case it contains
\* no AAAA job added for that reason: none for the qname when qtype is not A or
\* when the flag or prefetch is off.
C19_OneAaaaJobForA ==
    related.called =>
        LET aaaa_job == [pipeline_id |-> related.pipeline_id, qname |-> related.qname,
                         qtype |-> 28, upstream |-> related.upstream]
            aaaa_jobs == { i \in 1..Len(related.jobs) : related.jobs[i].qtype = 28 }
        IN IF config.enabled /\ config.ipv6_on_ipv4_enabled /\ related.qtype = 1
           THEN /\ Cardinality(aaaa_jobs) = 1
                /\ \A i \in aaaa_jobs : related.jobs[i] = aaaa_job
           ELSE \A i \in 1..Len(related.jobs) : related.jobs[i] # aaaa_job
C19_Witness ==
    /\ related.called
    /\ config.enabled /\ config.ipv6_on_ipv4_enabled /\ related.qtype = 1
    /\ Len(related.jobs) = 3
    /\ related.jobs[1].qtype = 28

\* C20: when CDN prefetch is enabled, related_jobs(pipeline, qname, qtype,
\* upstream) contains exactly one job per domain of the relation currently
\* stored for (pipeline, upstream, qname), each with the original qtype, the
\* same pipeline and the same upstream; it contains no CDN job when CDN prefetch
\* is disabled, when no relation is stored for that key, or when the only
\* relations stored are for a different pipeline or a different upstream.
\* (A step that changes `related` is a call of related_jobs; the relations are
\* those stored when it is called.)
C20_OneJobPerRelatedDomain ==
    [][related' # related =>
        LET call == related'
            aaaa_job == [pipeline_id |-> call.pipeline_id, qname |-> call.qname,
                         qtype |-> 28, upstream |-> call.upstream]
            cdn == SelectSeq(call.jobs, LAMBDA job : job # aaaa_job)
            key == <<"cdn", call.pipeline_id, call.upstream,
                     [i \in 1..Len(call.qname) |-> reference_lower(call.qname[i])]>>
        IN IF config.cdn_prefetch_enabled /\ key \in DOMAIN cdn_relations
           THEN /\ Len(cdn) = Len(cdn_relations[key])
                /\ \A i \in 1..Len(cdn) :
                      cdn[i] = [pipeline_id |-> call.pipeline_id,
                                qname |-> cdn_relations[key][i],
                                qtype |-> call.qtype,
                                upstream |-> call.upstream]
                /\ \A i, j \in 1..Len(cdn) : cdn[i].qname = cdn[j].qname => i = j
           ELSE Len(cdn) = 0
      ]_vars
C20_Witness ==
    /\ related.called
    /\ related.qname = <<65>>
    /\ related.pipeline_id = "p1" /\ related.upstream = "1.1.1.1:53"
    /\ Len(related.jobs) = 2
    /\ related.jobs[1].qname = <<98>> /\ related.jobs[2].qname = <<99>>
    /\ related.jobs[1].qtype = 28
    /\ <<"cdn", "p1", "1.1.1.1:53", <<97>>>> \in DOMAIN cdn_relations
    /\ Cardinality(DOMAIN cdn_relations) = 2

(***************************************************************************)
(* Claims about the CDN relations registered from a response.              *)
(***************************************************************************)
\* a name lower-cased and without its trailing dots
reference_domain(text) ==
    LET n == CHOOSE n \in 0..Len(text) :
                 /\ \A i \in (n + 1)..Len(text) : text[i] = 46
                 /\ n = 0 \/ text[n] # 46
    IN [i \in 1..n |-> reference_lower(text[i])]
\* the CNAME owner-to-target links of an answer section
reference_links(answers) ==
    { <<reference_domain(answers[i].name), reference_domain(answers[i].target)>> :
        i \in { i \in 1..Len(answers) : answers[i].rtype = 5 } }
\* the domains reachable from one of `from` by following 1 to `most` links
RECURSIVE reference_reachable(_, _, _)
reference_reachable(links, from, most) ==
    IF most = 0 \/ from = {} THEN {}
    ELSE LET step == { link[2] : link \in { link \in links : link[1] \in from } }
         IN step \cup reference_reachable(links, step, most - 1)
\* the domains of the relation stored for a registration, as a set
stored_relation(relations, call) ==
    LET key == <<"cdn", call.pipeline_id, call.upstream, reference_domain(call.origin)>>
    IN IF key \in DOMAIN relations
       THEN { relations[key][i] : i \in 1..Len(relations[key]) }
       ELSE {}
\* a registration the manager acts on: prefetch and CDN prefetch are enabled and
\* the response decodes
registers(call) ==
    call.called /\ call.response.parses /\ config.enabled /\ config.cdn_prefetch_enabled

\* C21: for a response whose CNAME records make at most 32 domains reachable
\* from the origin, the relation stored by the registration is exactly the set
\* of domains other than the origin reachable from it by following between 1
\* and 8 CNAME owner-to-target links, names compared lower-cased and without
\* trailing dot, over every branch; a domain reachable only by more than 8
\* links is not in it.  (A step that changes `registration` is a registration;
\* `registration` holds the arguments and the list stored before the call.)
C21_RelationIsReachableWithinEight ==
    [][(registration' # registration /\ registers(registration')) =>
        LET call == registration'
            origin == reference_domain(call.origin)
            links == reference_links(call.response.answers)
            all == reference_reachable(links, {origin}, Cardinality(links)) \ {origin}
            near == reference_reachable(links, {origin}, 8) \ {origin}
        IN Cardinality(all) <= 32 => stored_relation(cdn_relations', call) = near
      ]_vars
\* the chain of 9 links from "a." is registered for "A.": "b" to "i" are stored,
\* "j" is not
C21_Witness ==
    /\ registers(registration)
    /\ registration.origin = <<65, 46>>
    /\ Len(registration.response.answers) = 9
    /\ registration.response.answers[9].target = <<106, 46>>
    /\ stored_relation(cdn_relations, registration) = { <<b>> : b \in 98..105 }

\* C22: every relation list stored in the CDN relation cache, whatever was
\* registered, is non-empty, has at most 32 entries, holds no domain twice and
\* does not hold the normalized origin it is stored under (the last component
\* of its key).
C22_StoredListsWellFormed ==
    \A key \in DOMAIN cdn_relations :
        LET list == cdn_relations[key]
        IN /\ Len(list) >= 1
           /\ Len(list) <= 32
           /\ \A i, j \in 1..Len(list) : list[i] = list[j] => i = j
           /\ \A i \in 1..Len(list) : list[i] # key[4]
\* the fan of 33 targets has been registered: 32 of them are stored
C22_Witness ==
    /\ registers(registration)
    /\ Len(registration.response.answers) = 33
    /\ \E key \in DOMAIN cdn_relations :
          /\ Len(cdn_relations[key]) = 32
          /\ key[2] = registration.pipeline_id

\* the jobs of a related_jobs call other than the AAAA job of its own qname
cdn_jobs_of(jobs, pipeline_id, qname, upstream) ==
    SelectSeq(jobs, LAMBDA job : job # [pipeline_id |-> pipeline_id, qname |-> qname,
                                        qtype |-> 28, upstream |-> upstream])

\* C23: registering a response in which no CNAME link leaves the origin removes
\* the relation stored for the same (pipeline, upstream, origin), so that a
\* related_jobs call that follows yields no CDN job; registering a response
\* with a non-empty chain replaces the stored list by the new one, which holds
\* domains of the new response only.
C23_EmptyChainRemovesElseReplaces ==
    [][(registration' # registration /\ registers(registration')) =>
        LET call == registration'
            origin == reference_domain(call.origin)
            key == <<"cdn", call.pipeline_id, call.upstream, origin>>
            links == reference_links(call.response.answers)
            direct == reference_reachable(links, {origin}, 1) \ {origin}
            near == reference_reachable(links, {origin}, 8) \ {origin}
        IN IF direct = {}
           THEN /\ key \notin DOMAIN cdn_relations'
                /\ \A route \in RegRoutes, qname \in RegOrigins :
                      (route = <<call.pipeline_id, call.upstream>> /\ qname = call.origin)
                      => cdn_jobs_of(related_jobs(route[1], qname, 1, route[2])',
                                     route[1], qname, route[2]) = << >>
           ELSE /\ key \in DOMAIN cdn_relations'
                /\ stored_relation(cdn_relations', call) \subseteq near
                /\ direct \cap stored_relation(cdn_relations', call) # {}
                /\ Cardinality(near) <= 32 => stored_relation(cdn_relations', call) = near
      ]_vars
\* a relation was stored for ("p1", "8.8.8.8:53", "a") when a response whose
\* only CNAME links are x -> y and a -> A was registered for it: it is gone
C23_Witness ==
    /\ registers(registration)
    /\ registration.replaced # NoRelation
    /\ Len(registration.response.answers) = 2
    /\ registration.response.answers[1].name = <<120, 46>>
    /\ <<"cdn", registration.pipeline_id, registration.upstream, <<97>>>>
          \notin DOMAIN cdn_relations
\* a stored list has been replaced by a different one
C23_WitnessReplaced ==
    /\ registers(registration)
    /\ registration.replaced # NoRelation
    /\ stored_relation(cdn_relations, registration) # {}
    /\ stored_relation(cdn_relations, registration)
          # { registration.replaced[i] : i \in 1..Len(registration.replaced) }

(***************************************************************************)
(* Claims about record_access and the statistics.                          *)
(***************************************************************************)
RECURSIVE sum_over(_, _)
sum_over(f, keys) ==
    IF keys = {} THEN 0
    ELSE LET key == CHOOSE key \in keys : TRUE
         IN f[key] + sum_over(f, keys \ {key})
\* every increment owed by a call begun has been made, and nothing else
all_counted ==
    /\ \A key \in HotKeys :
          (IF key \in DOMAIN hot_domains THEN hot_domains[key].access_count ELSE 0)
              = expected[key]
    /\ DOMAIN hot_domains \subseteq HotKeys
    /\ get_stats.total_domains = Cardinality({ key \in HotKeys : expected[key] > 0 })
    /\ get_stats.total_accesses = sum_over(expected, HotKeys)

\* C24: on an enabled manager each record_access(hash, entry) call raises the
\* access count of `hash` by exactly 1, creating the entry on first access, and,
\* when CDN prefetch is enabled and a relation is stored for the entry, the
\* count of the fingerprint of each related domain by exactly 1, and changes no
\* other entry; so after any calls, concurrent ones too, get_stats reports as
\* total_domains the number of fingerprints touched and as total_accesses the
\* number of increments owed.  (Calls being finitely many in a behaviour, this
\* is: from some point on every increment owed has been made.)
C24_EveryAccessCounted == <>[]all_counted

\* no thread is inside record_access
all_returned == \A t \in Threads : access[t].pc = "idle"

C26_DisabledManagerUntouched ==
    ~config.enabled =>
        /\ get_stats.total_domains = 0
        /\ get_stats.total_accesses = 0
        /\ hot_domains = << >>
        /\ cdn_relations = << >>
        /\ last_prefetch = << >>
        /\ permits = 0
        /\ concurrency = 5
        /\ cdn_relation_stats = [lookups |-> 0, hits |-> 0]
        /\ \A s \in Shards : shard_locks[s] = 0
        /\ related.called => related.jobs = << >>
        /\ ret.result # "-" => ret.result = "None"
\* on a disabled manager record_access, a registration of a response with a
\* CNAME chain, related_jobs and try_prepare_job have all been called
C26_Witness ==
    /\ ~config.enabled
    /\ lookup_ops = [related_jobs |-> 1, record_access |-> 1]
    /\ registration.called /\ Len(registration.response.answers) = 2
    /\ related.called
    /\ ret.result = "None"

\* C27: after any series of operations made one after the other,
\* cdn_relation_stats.lookups is the number of CDN-relation lookups performed,
\* one per related_jobs call and one per record_access call made with prefetch
\* and CDN prefetch enabled, and hits is the number of those lookups that
\* found a relation stored; a lookup made before any registration for its key
\* counts as a lookup and not as a hit.
C27_LookupsAndHitsCounted ==
    /\ cdn_relation_stats.lookups =
          IF config.enabled /\ config.cdn_prefetch_enabled
          THEN lookup_ops.related_jobs + lookup_ops.record_access
          ELSE 0
    /\ cdn_relation_stats.hits =
          IF config.enabled /\ config.cdn_prefetch_enabled THEN lookup_found ELSE 0
\* a related_jobs call before the registration and a record_access call after it
C27_Witness ==
    /\ cdn_relation_stats = [lookups |-> 2, hits |-> 1]
    /\ lookup_ops = [related_jobs |-> 1, record_access |-> 1]
    /\ related.called /\ related.jobs[Len(related.jobs)].qtype = 28
    /\ registration.called
    /\ access[1].pc = "idle"


(***************************************************************************)
(* Claims about the combination of a rule's matchers.                      *)
(***************************************************************************)
\* the rule matches, by the operator's characterisation over all predicates
rule_matches(operator, holds) ==
    CASE operator = "And" -> \A i \in 1..Len(holds) : holds[i]
      [] operator = "Or" -> \E i \in 1..Len(holds) : holds[i]
      [] operator = "AndNot" -> holds[1] /\ \A i \in 2..Len(holds) : ~holds[i]
      [] operator = "OrNot" -> holds[1] \/ \E i \in 2..Len(holds) : ~holds[i]
\* the first i predicates decide the result: whatever the later ones are
decides(operator, holds, i) ==
    \A other \in [1..Len(holds) -> BOOLEAN] :
        (\A j \in 1..i : other[j] = holds[j])
            => rule_matches(operator, other) = rule_matches(operator, holds)
first_decisive(operator, holds) ==
    CHOOSE i \in 1..Len(holds) :
        /\ decides(operator, holds, i)
        /\ \A j \in 1..(i - 1) : ~decides(operator, holds, j)

\* C28: when the evaluation of a rule's predicates P1..Pk ends, its result is
\* that of the rule's operator (AND: every Pi holds; OR: some Pi holds; AND-NOT:
\* P1 holds and no later Pi does; OR-NOT: P1 holds or some later Pi does not),
\* the predicates evaluated are exactly those up to the first one that decides
\* the result, and a rule whose operator is omitted is combined by AND.
C28_OperatorsCombineAndShortCircuit ==
    /\ rule # NoRule =>
           /\ rule.text = Omitted => rule.operator = "And"
           /\ rule.text = "and" => rule.operator = "And"
           /\ rule.text = "or" => rule.operator = "Or"
           /\ matching.evaluated < matching.next
           /\ ~matching.done =>
                  matching.evaluated < first_decisive(rule.operator, rule.predicates)
    /\ matching.done =>
           /\ matching.result = rule_matches(rule.operator, rule.predicates)
           /\ matching.evaluated = first_decisive(rule.operator, rule.predicates)
C28_Witness ==
    /\ matching.done
    /\ rule.text = "not"
    /\ rule.predicates = <<TRUE, TRUE, FALSE>>
    /\ matching.evaluated = 2
    /\ ~matching.result

(***************************************************************************)
(* Claims about the response phase.                                        *)
(***************************************************************************)
\* the evaluation stands at a jump_to_pipeline action
at_jump ==
    /\ response_eval.pc = "running"
    /\ response_eval.index <= Len(response_eval.pipelines[response_eval.pipeline])
    /\ response_eval.pipelines[response_eval.pipeline][response_eval.index].kind
           = "jump_to_pipeline"

\* C29: the jumps performed in the response phase of one request never exceed
\* response_jump_limit; a jump_to_pipeline met once the limit is reached changes
\* neither the pipeline, nor the jumps counted, nor the response, and the
\* evaluation goes on; every evaluation begun ends.
C29_JumpsBoundedAndEvaluationEnds ==
    /\ [](response_eval.jumps <= settings.response_jump_limit)
    /\ [][(at_jump /\ response_eval.jumps >= settings.response_jump_limit)
              => /\ response_eval'.response = response_eval.response
                 /\ response_eval'.pipeline = response_eval.pipeline
                 /\ response_eval'.jumps = response_eval.jumps
                 /\ response_eval'.pc = "running"]_vars
    /\ (response_eval.pc = "running") ~> (response_eval.pc = "done")
\* pipelines jumping to each other under the default limit: ten jumps, then a
\* jump that is skipped, then the end
C29_Witness ==
    /\ response_eval.pc = "done"
    /\ settings = GlobalSettings(Absent)
    /\ response_eval.pipelines["p2"] = <<JumpToPipeline("p1"), Allow>>
    /\ response_eval.jumps = 10
    /\ response_eval.skipped = 1
    /\ response_eval.response = "upstream"

(***************************************************************************)
(* Claims about load_config.                                               *)
(***************************************************************************)
CidrKinds == { "client_ip", "response_upstream_ip", "response_answer_ip" }
\* the values of the CIDR matchers of a configuration: of every rule of every
\* pipeline, and of every selector
cidr_values(cfg) ==
    { m.cidr : m \in
        { x \in UNION ({ { r.matchers[i] : i \in 1..Len(r.matchers) }
                             \cup { r.response_matchers[i] : i \in 1..Len(r.response_matchers) } :
                         r \in UNION { { cfg.pipelines[p].rules[i] :
                                           i \in 1..Len(cfg.pipelines[p].rules) } :
                                       p \in 1..Len(cfg.pipelines) } }
                       \cup { { cfg.pipeline_select[q].matchers[i] :
                                  i \in 1..Len(cfg.pipeline_select[q].matchers) } :
                              q \in 1..Len(cfg.pipeline_select) }) :
            x.type \in CidrKinds } }
\* a single CIDR or a comma-separated list of valid CIDRs
reference_cidr_list(text) ==
    /\ Len(text) % 2 = 1
    /\ \A i \in 1..Len(text) : text[i] = (IF i % 2 = 1 THEN Net ELSE Comma)
\* text[i..j] is an item of the list: a longest stretch without a comma
reference_item(text, i, j) ==
    /\ 1 <= i /\ i <= j /\ j <= Len(text)
    /\ \A n \in i..j : text[n] # Comma
    /\ i = 1 \/ text[i - 1] = Comma
    /\ j = Len(text) \/ text[j + 1] = Comma
\* some CIDR listed in the text does not parse
reference_bad_cidr(text) ==
    \E i, j \in 1..Len(text) :
        /\ reference_item(text, i, j)
        /\ LET item == SelectSeq(SubSeq(text, i, j), LAMBDA c : c # Space)
           IN item # << >> /\ item # <<Net>>

\* C30: load_config returns the configuration when the value of every
\* client_ip, response_upstream_ip and response_answer_ip matcher is a single
\* CIDR or a comma-separated list of valid CIDRs (and no other check fails), and
\* returns an error when some CIDR listed in some such matcher does not parse.
C30_CidrListsAcceptedBadCidrsRejected ==
    (loaded.called /\ loaded.file.kind = "json") =>
        /\ ( /\ \A text \in cidr_values(loaded.file.cfg) : reference_cidr_list(text)
             /\ RequestDomainSuffix(<< >>)
                    \notin { loaded.file.cfg.pipelines[2].rules[1].response_matchers[i] :
                               i \in 1..Len(loaded.file.cfg.pipelines[2].rules[1].response_matchers) } )
               => loaded.result = [ok |-> TRUE, cfg |-> loaded.file.cfg]
        /\ (\E text \in cidr_values(loaded.file.cfg) : reference_bad_cidr(text))
               => ~loaded.result.ok

(***************************************************************************)
(* Claims about deserialization.                                           *)
(***************************************************************************)
\* the value a field must have: the one provided, the default when omitted
provided_or(field, default) == IF field = Absent THEN default ELSE field[1]
\* the flow-control field `name` of the settings deserialized
flow_field_as_expected(name, default) ==
    deserialized.result.settings[name]
        = IF deserialized.json.settings = Absent THEN default
          ELSE provided_or(deserialized.json.settings[1][name], default)

\* C31: a configuration that deserializes has in every flow-control setting
\* the value provided, or 500 / 100 / 800 permits, 100 ms and 5 s when omitted;
\* its rule has AND for an omitted matcher_operator or response_matcher_operator
\* and the operator named otherwise, and the provided list, or the empty list
\* when omitted, for response_actions_on_match and response_actions_on_miss.
C31_OmittedFieldsDefaultProvidedKept ==
    (deserialized.called /\ deserialized.result.ok) =>
        /\ flow_field_as_expected("flow_control_initial_permits", 500)
        /\ flow_field_as_expected("flow_control_min_permits", 100)
        /\ flow_field_as_expected("flow_control_max_permits", 800)
        /\ flow_field_as_expected("flow_control_latency_threshold_ms", 100)
        /\ flow_field_as_expected("flow_control_adjustment_interval_secs", 5)
        /\ \A name \in {"matcher_operator", "response_matcher_operator"} :
               deserialized.result.rule[name]
                   = CASE deserialized.json.rule[name] = Absent -> "And"
                       [] deserialized.json.rule[name] = Given("or") -> "Or"
                       [] deserialized.json.rule[name] = Given("and-not") -> "AndNot"
        /\ \A name \in {"response_actions_on_match", "response_actions_on_miss"} :
               deserialized.result.rule[name]
                   = provided_or(deserialized.json.rule[name], << >>)
\* some settings given and the others omitted, in a rule with one operator and
\* one list given
C31_Witness ==
    /\ deserialized.called
    /\ deserialized.result.ok
    /\ deserialized.json.settings # Absent
    /\ deserialized.result.settings.flow_control_initial_permits = 200
    /\ deserialized.result.settings.flow_control_max_permits = 800
    /\ deserialized.json.rule.matcher_operator = Absent
    /\ deserialized.result.rule.response_matcher_operator = "Or"
    /\ deserialized.result.rule.response_actions_on_match = <<Log, Allow>>
    /\ deserialized.json.rule.response_actions_on_miss = Absent

(***************************************************************************)
(* Claims about the locks of hot_domains.                                  *)
(***************************************************************************)
\* C32: every record_access call returns: a thread that has entered
\* record_access is later outside it again, wherever the fingerprints of the
\* entry and of its related domains fall in the shards of hot_domains and
\* however the calls of the threads interleave.
C32_EveryAccessReturns ==
    \A t \in Threads : (access[t].pc # "idle") ~> (access[t].pc = "idle")

(***************************************************************************)
(* Claims about the last-prefetch times shared by record_access and        *)
(* try_prepare_job.                                                        *)
(***************************************************************************)
\* the fingerprint under which record_access marks the name of a job hot
hot_fingerprint(job) == calculate_cache_hash(job.pipeline_id, job.qname, job.qtype)

\* C33: a try_prepare_job call for a job whose pipeline, qname and qtype are
\* those of a fingerprint that record_access has marked hot at time t returns a
\* permit only at t + min_interval or later.
C33_HotMarkDebouncesJob ==
    [][\A job \in HotJobs :
           ( /\ ret' # ret
             /\ ret'.result = "permit"
             /\ ret'.job = job
             /\ hot_fingerprint(job) \in DOMAIN last_prefetch )
               => ret'.now >= last_prefetch[hot_fingerprint(job)] + config.min_interval]_vars

(***************************************************************************)
(* Claims about the bounds of the quick parsers.                           *)
(***************************************************************************)
\* C34: parse_quick (with skip_name) reads the packet only below its length and
\* writes the buffer only below its length, and parse_response_quick reads the
\* packet only below its length; the operators that collect the indices follow
\* the parsers (they end where the parsers return None), and a name whose
\* labels and dots are more than the buffer holds yields None.
C34_ParsersStayInBounds ==
    /\ "query" \in parsed =>
           LET touched == parse_quick_accesses(wire, scratch)
           IN /\ \A i \in touched.reads : 0 <= i /\ i < Len(wire)
              /\ \A i \in touched.writes : 0 <= i /\ i < scratch
              /\ quick_query.ok =>
                     /\ touched.writes = 0..(Len(quick_query.qname) - 1)
                     /\ Len(quick_query.qname) <= scratch
                     /\ Len(wire) >= 17
    /\ "response" \in parsed =>
           /\ \A i \in parse_response_quick_reads(wire) : 0 <= i /\ i < Len(wire)
           /\ quick_response.ok => Len(wire) >= 12
\* the query for "aB.C" followed by three records has been given to both
\* parsers with a buffer of 256 bytes: the name fills bytes 0..3 of the buffer
\* and the walk over the additional section has read the type of a record
C34_Witness ==
    /\ parsed = {"query", "response"}
    /\ quick_query.ok
    /\ scratch = 256
    /\ parse_quick_accesses(wire, scratch).writes = 0..3
    /\ \E i \in parse_quick_accesses(wire, scratch).reads : i >= 22 + 16
    /\ quick_response.ok

\* the records of the answers that are CNAMEs whose owner names the target
self_references(answers) ==
    { i \in 1..Len(answers) :
        /\ answers[i].rtype = TypeCNAME
        /\ normalize_domain_str(answers[i].name) = normalize_domain_str(answers[i].target) }
\* the records that are CNAMEs pointing back at `name`
references_to(answers, name) ==
    { i \in 1..Len(answers) :
        /\ answers[i].rtype = TypeCNAME
        /\ normalize_domain_str(answers[i].target) = name
        /\ normalize_domain_str(answers[i].name) # name }
\* the names a response mentions
names_of(answers) ==
    { normalize_domain_str(answers[i].name) : i \in 1..Len(answers) }
        \cup { normalize_domain_str(answers[i].target) : i \in 1..Len(answers) }

\* what holds of the walk at every iteration: no domain is pushed onto the
\* queue twice, no more nodes are polled than were pushed, which are no more
\* than the names of the response and the origin, a record whose owner is its
\* target has added no edge, and the walk ends with the relation of the
\* one-call model
walk_bounded ==
    /\ \A i, j \in 1..Len(traversal.enqueued) :
          i # j => traversal.enqueued[i] # traversal.enqueued[j]
    /\ traversal.polls <= Len(traversal.enqueued)
    /\ Len(traversal.enqueued) <= Cardinality(names_of(traversal.answers)) + 1
    /\ Len(traversal.related) <= CNAME_RELATION_LIMIT
    /\ \A owner \in DOMAIN traversal.graph :
          \A i \in 1..Len(traversal.graph[owner]) : traversal.graph[owner][i] # owner
    /\ (traversal.pc = "done" /\ config.enabled /\ config.cdn_prefetch_enabled)
          => traversal.related =
                related_domains_of(traversal.origin, cname_records(traversal.answers))

\* C35: register_cdn_relations_from_message terminates for every response,
\* cyclic or self-referencing: each domain is enqueued at most once, a record
\* whose owner equals its target is ignored, and a walk that has begun ends.
C35_WalkEndsEachDomainQueuedOnce ==
    /\ []walk_bounded
    /\ (traversal.pc = "poll") ~> (traversal.pc = "done")
\* the walk of a response with a cycle back to the origin and a record naming
\* itself has ended after three nodes
C35_Witness ==
    /\ traversal.pc = "done"
    /\ traversal.polls = 3
    /\ self_references(traversal.answers) # {}
    /\ references_to(traversal.answers, normalize_domain_str(traversal.origin)) # {}
    /\ Len(traversal.related) = 2


\* the call on record was refused by the min-interval check of lines 245-248
refused_by_interval(call) ==
    /\ config.enabled
    /\ call.result = "None"
    /\ call.pre_last # NoInstant
    /\ duration_since(call.now, call.pre_last) < config.min_interval
\* the call on record was refused by try_acquire_owned, lines 252-257
refused_for_slot(call) ==
    /\ config.enabled
    /\ call.result = "None"
    /\ ~refused_by_interval(call)

\* C36: a try_prepare_job call that returns None records no last-prefetch time
\* for its job and takes no slot; one refused by the min-interval check leaves
\* last_prefetch and the free slots as they were; and the call that follows a
\* call refused for lack of a slot, for the same job and with a slot free,
\* returns a permit whatever the time.
C36_RefusedCallLeavesNoTrace ==
    [][\A job \in PrefetchJobs :
          try_prepare_job(job) =>
             /\ ret'.result = "None" =>
                   /\ concurrency' = concurrency /\ permits' = permits
                   /\ map_get(last_prefetch', job_hash(job)) \in
                          {NoInstant, map_get(last_prefetch, job_hash(job))}
                   /\ \A other \in PrefetchJobs \ {job} :
                          map_get(last_prefetch', job_hash(other))
                              = map_get(last_prefetch, job_hash(other))
             /\ refused_for_slot(ret') => job_hash(job) \notin DOMAIN last_prefetch'
             /\ refused_by_interval(ret') => last_prefetch' = last_prefetch
             /\ (refused_for_slot(ret) /\ ret.job = job /\ concurrency > 0)
                   => ret'.result = "permit"
      ]_vars
\* a call made after the interval of an earlier grant has passed was refused
\* for lack of a slot, and no time is recorded for its job
C36_Witness ==
    /\ refused_for_slot(ret)
    /\ ret.pre_last # NoInstant
    /\ ret.pre_avail = 0
    /\ job_hash(ret.job) \notin DOMAIN last_prefetch
    /\ concurrency > 0


\* C38: registration and lookup agree on the key: a relation registered for
\* (pipeline, upstream, origin O) is found by a related_jobs call for the same
\* pipeline and upstream and a qname that equals O once both are lower-cased
\* and lose their trailing dot, i.e. the call's CDN jobs are those of the
\* relation stored for the domain of its qname.  (A step that changes
\* `related` is a call of related_jobs; the stored keys are all written by
\* registrations.)
C38_LookupFindsRegisteredDomain ==
    [][related' # related =>
        LET call == related'
            cdn == cdn_jobs_of(call.jobs, call.pipeline_id, call.qname, call.upstream)
            key == <<"cdn", call.pipeline_id, call.upstream, reference_domain(call.qname)>>
        IN (config.enabled /\ config.cdn_prefetch_enabled /\ key \in DOMAIN cdn_relations)
              => /\ Len(cdn) = Len(cdn_relations[key])
                 /\ \A i \in 1..Len(cdn) : cdn[i].qname = cdn_relations[key][i]
      ]_vars


\* C37: in every reachable state the CDN-relation hit counter is at most the
\* lookup counter, and every snapshot cdn_relation_stats returns, also while
\* lookups run on other threads, reports hits <= lookups.
C37_HitsAtMostLookups ==
    /\ cdn_relation_hits <= cdn_relation_lookups
    /\ snapshot.returned => snapshot.hits <= snapshot.lookups


====
